---- MODULE Spec2Model ----
(***************************************************************************)
(* polymorph: TACT fetcher and sheepfile repacker.                         *)
(*                                                                         *)
(* The module models six parts of the crate and gives each its own         *)
(* specification over the same variables:                                  *)
(*   SpecWriter  SheepfileWriter::append_entry / finish and the reader     *)
(*               (src/src/sheepfile/writer.rs, src/src/sheepfile.rs)       *)
(*   SpecCache   BlizzCache and read_or_cache[_segment] (src/src/cdn.rs)   *)
(*   SpecTasks   the same two functions called by concurrent tasks, each   *)
(*               stepping from one filesystem or network call to the next  *)
(*   Spec        SheepfileWriter::write_cdn_files, the repack pipeline     *)
(*   SpecFetch   CDNFetcher::fetch_file_id / fetch_file_name               *)
(*   SpecCodec   the parsers and codecs: decode_blte, ArchiveIndex::parse, *)
(*               RootFile::parse, the hex form of keys, vlq_read and       *)
(*               vlq_write, the lookups by path                            *)
(***************************************************************************)
EXTENDS Integers, Sequences, FiniteSets, TLC

VARIABLES
    writer,       \* SheepfileWriter: current_data_index, current_data_file,
                  \* current_data_file_size, entries
    seg_files,    \* output directory: segment number N -> bytes of data{N}.baa
    index_file,   \* output directory: index.shp, [exists, bytes]
    wstatus,      \* "open" | "failed" (an append or finish returned Err) | "finished"
    appended,     \* history: the payloads handed to append_entry, one per entry
    rd,           \* last SheepfileReader::get_entry_data call: [i, entry, res]
    cache_files,  \* cache directory: path -> bytes of the file at that path
    requests,     \* the HTTP requests sent so far: request -> how many times
    served,       \* history: path -> bytes the first successful fetch returned
    last,         \* last BlizzCache call: its arguments, result and effects
    tasks,        \* concurrent cache fetches: task -> its call, position and locals
    cdns,         \* write_cdn_files: the CDNFetcher sources, in merge order
    pc,           \* write_cdn_files: where the call stands
    wl,           \* write_cdn_files: its locals (all_entries, all_file_ids, ...)
    ret,          \* write_cdn_files: "" while running, then "ok" or the Err
    skipped,      \* history: [cdn, file_id, why] of every id passed over
    emitted,      \* history: [cdn, file_id] of every append_entry, in order
    decoded,      \* last decode_blte call: [file_id, buf, res]
    call          \* last call of a parser, codec or lookup: [fn, arg, res]

wvars == <<writer, seg_files, index_file, wstatus, appended, rd>>
cvars == <<cache_files, requests, served, last, tasks>>
pvars == <<cdns, pc, wl, ret, skipped, emitted, decoded>>
vars == <<wvars, cvars, pvars, call>>

Absent == [exists |-> FALSE, bytes |-> <<>>]
Present(bytes) == [exists |-> TRUE, bytes |-> bytes]
NoRead == [i |-> 0]
NoCall == [fn |-> "none"]
NoTasks == <<>>

(***************************************************************************)
(* Byte strings.  A Vec<u8> / file content is a sequence of runs; the run  *)
(* [src, off, len] stands for the bytes off .. off+len-1 of the blob src.  *)
(* Strings are kept in normal form (no empty run, adjacent runs of one     *)
(* blob merged), so two strings are equal iff they hold the same bytes of  *)
(* the same blobs.  This lets sizes be the real ones (256 MB segments).    *)
(***************************************************************************)
Run(src, off, len) == [src |-> src, off |-> off, len |-> len]

Blob(src, len) == IF len = 0 THEN <<>> ELSE <<Run(src, 0, len)>>

RECURSIVE BLen(_)
BLen(bs) == IF bs = <<>> THEN 0 ELSE Head(bs).len + BLen(Tail(bs))

BPush(bs, r) ==
    IF r.len = 0 THEN bs
    ELSE IF bs # <<>> /\ bs[Len(bs)].src = r.src
                      /\ bs[Len(bs)].off + bs[Len(bs)].len = r.off
         THEN [bs EXCEPT ![Len(bs)].len = @ + r.len]
         ELSE Append(bs, r)

RECURSIVE BCat(_, _)
BCat(a, b) == IF b = <<>> THEN a ELSE BCat(BPush(a, Head(b)), Tail(b))

\* the bytes [s, e) of bs (0-based, half-open); the caller checks e <= BLen(bs)
RECURSIVE BSlice(_, _, _)
BSlice(bs, s, e) ==
    IF bs = <<>> \/ e <= 0 \/ s >= e THEN <<>>
    ELSE LET r == Head(bs) IN
         IF s >= r.len THEN BSlice(Tail(bs), s - r.len, e - r.len)
         ELSE LET hi == IF e < r.len THEN e ELSE r.len
              IN  BCat(<<Run(r.src, r.off + s, hi - s)>>,
                       BSlice(Tail(bs), 0, e - r.len))

(***************************************************************************)
(* Integer conversions of Entry's fields (`as u16`, `as u32`).             *)
(***************************************************************************)
AsU16(x) == x % 65536

\* the low two 16-bit limbs of x, i.e. x mod 2^32
AsU32(x) == ((x \div 65536) % 65536) * 65536 + (x % 65536)

(***************************************************************************)
(* index.shp: deku's little-endian layout of Index and Entry.              *)
(***************************************************************************)
RECURSIVE ToLE(_, _)
ToLE(x, n) == IF n = 0 THEN <<>> ELSE <<x % 256>> \o ToLE(x \div 256, n - 1)

RECURSIVE FromLE(_)
FromLE(bytes) == IF bytes = <<>> THEN 0 ELSE Head(bytes) + 256 * FromLE(Tail(bytes))

ENTRY_BYTES == 22

EntryToBytes(e) ==
    ToLE(e.file_id, 4) \o ToLE(e.name_hash, 8) \o ToLE(e.data_file_index, 2)
        \o ToLE(e.start_bytes, 4) \o ToLE(e.size_bytes, 4)

EntryFromBytes(b) ==
    [file_id         |-> FromLE(SubSeq(b, 1, 4)),
     name_hash       |-> FromLE(SubSeq(b, 5, 12)),
     data_file_index |-> FromLE(SubSeq(b, 13, 14)),
     start_bytes     |-> FromLE(SubSeq(b, 15, 18)),
     size_bytes      |-> FromLE(SubSeq(b, 19, 22))]

RECURSIVE EntriesToBytes(_)
EntriesToBytes(es) ==
    IF es = <<>> THEN <<>> ELSE EntryToBytes(Head(es)) \o EntriesToBytes(Tail(es))

IndexToBytes(index) == ToLE(index.num_entries, 4) \o EntriesToBytes(index.entries)

\* Index::from_bytes: num_entries, then that many entries; Err on short input
IndexFromBytes(data) ==
    IF Len(data) < 4 THEN [ok |-> FALSE, entries |-> <<>>]
    ELSE LET n == FromLE(SubSeq(data, 1, 4)) IN
         IF Len(data) < 4 + n * ENTRY_BYTES THEN [ok |-> FALSE, entries |-> <<>>]
         ELSE [ok |-> TRUE,
               entries |-> [i \in 1..n |->
                   EntryFromBytes(SubSeq(data, 5 + (i - 1) * ENTRY_BYTES,
                                               4 + i * ENTRY_BYTES))]]

(***************************************************************************)
(* SheepfileWriter                                                         *)
(***************************************************************************)
MAX_DATA_FILE_SIZE_BYTES == 256000000

\* SheepfileWriter::new: data0.baa created, empty
NewWriter ==
    [current_data_index     |-> 0,
     current_data_file      |-> 0,
     current_data_file_size |-> 0,
     entries                |-> <<>>]

\* io outcomes of one append_entry call
IoOk          == [kind |-> "ok", n |-> 0]
IoCreateFails == [kind |-> "create_fails", n |-> 0]
IoWriteFails(n) == [kind |-> "write_fails", n |-> n]

\* mutant: the recorded size is not reset for the new segment
new_data_file_KeepsSize(w, files, io) ==
    LET w1 == [w EXCEPT !.current_data_index = @ + 1]
    IN  IF io.kind = "create_fails"
        THEN [w |-> w1, files |-> files, ok |-> FALSE]
        ELSE [w |-> [w1 EXCEPT !.current_data_file = w1.current_data_index],
              files |-> [n \in DOMAIN files \cup {w1.current_data_index} |->
                            IF n = w1.current_data_index THEN <<>> ELSE files[n]],
              ok |-> TRUE]

\* new_data_file: the counters move before File::create is tried
new_data_file(w, files, io) ==
    LET w1 == [w EXCEPT !.current_data_index = @ + 1,
                        !.current_data_file_size = 0]
    IN  IF io.kind = "create_fails"
        THEN [w |-> w1, files |-> files, ok |-> FALSE]
        ELSE [w |-> [w1 EXCEPT !.current_data_file = w1.current_data_index],
              files |-> [n \in DOMAIN files \cup {w1.current_data_index} |->
                            IF n = w1.current_data_index THEN <<>> ELSE files[n]],
              ok |-> TRUE]

\* mutant: a payload that fills the segment to the cap opens the next one
NeedsNewFile_AtCap(w, data) ==
    BLen(data) + w.current_data_file_size >= MAX_DATA_FILE_SIZE_BYTES

\* mutant: the size already in the segment is left out of the test
NeedsNewFile_IgnoresCurrent(w, data) ==
    BLen(data) > MAX_DATA_FILE_SIZE_BYTES

NeedsNewFile(w, data) ==
    BLen(data) + w.current_data_file_size > MAX_DATA_FILE_SIZE_BYTES

\* mutant: the entry claims one byte more than the payload has
MakeEntry_OneByteMore(w, file_id, name_hash, data) ==
    [file_id         |-> file_id,
     name_hash       |-> name_hash,
     data_file_index |-> AsU16(w.current_data_index),
     start_bytes     |-> AsU32(w.current_data_file_size),
     size_bytes      |-> AsU32(BLen(data) + 1)]

MakeEntry(w, file_id, name_hash, data) ==
    [file_id         |-> file_id,
     name_hash       |-> name_hash,
     data_file_index |-> AsU16(w.current_data_index),
     start_bytes     |-> AsU32(w.current_data_file_size),
     size_bytes      |-> AsU32(BLen(data))]

\* mutant: the recorded size is not advanced after the write
AdvanceSize_Forgotten(w, data) == w

\* self.current_data_file_size += data.len()
AdvanceSize(w, data) == [w EXCEPT !.current_data_file_size = @ + BLen(data)]

append_entry(w, files, file_id, name_hash, data, io) ==
    LET nf == IF NeedsNewFile(w, data)
              THEN new_data_file(w, files, io)
              ELSE [w |-> w, files |-> files, ok |-> TRUE]
    IN  IF ~nf.ok THEN [w |-> nf.w, files |-> nf.files, ok |-> FALSE]
        ELSE
        LET w2 == [nf.w EXCEPT !.entries =
                       Append(@, MakeEntry(nf.w, file_id, name_hash, data))]
            h  == w2.current_data_file
        IN  IF io.kind = "write_fails"
            THEN [w |-> w2,
                  files |-> [nf.files EXCEPT ![h] = BCat(@, BSlice(data, 0, io.n))],
                  ok |-> FALSE]
            ELSE [w |-> AdvanceSize(w2, data),
                  files |-> [nf.files EXCEPT ![h] = BCat(@, data)],
                  ok |-> TRUE]

\* finish: index.shp is created, then the serialized Index written
finish(w, io) ==
    IF io.kind = "create_fails" THEN [index |-> Absent, ok |-> FALSE]
    ELSE LET bytes == IndexToBytes([num_entries |-> AsU32(Len(w.entries)),
                                    entries |-> w.entries])
         IN  IF io.kind = "write_fails"
             THEN [index |-> Present(SubSeq(bytes, 1, io.n)), ok |-> FALSE]
             ELSE [index |-> Present(bytes), ok |-> TRUE]

(***************************************************************************)
(* SheepfileReader                                                         *)
(***************************************************************************)
\* get_entry_data: open data{N}.baa, seek, read_exact size_bytes
get_entry_data(files, entry) ==
    IF entry.data_file_index \notin DOMAIN files
    THEN [ok |-> FALSE, data |-> <<>>]
    ELSE LET f == files[entry.data_file_index] IN
         IF BLen(f) < entry.start_bytes + entry.size_bytes
         THEN [ok |-> FALSE, data |-> <<>>]
         ELSE [ok |-> TRUE,
               data |-> BSlice(f, entry.start_bytes,
                               entry.start_bytes + entry.size_bytes)]

(***************************************************************************)
(* The CDN: what the patch server and the CDN host serve.                  *)
(***************************************************************************)
\* archive blobs of the CDN: key -> length in bytes
ArchiveLen == [a1 |-> 300, a2 |-> 86]

ArchiveKeys == DOMAIN ArchiveLen

\* ArchiveIndexEntry values of the archive indices (ekey, size, offset)
IndexEntry(ekey, offset, size) ==
    [ekey |-> ekey, offset_bytes |-> offset, size_bytes |-> size]

ArchiveEntries ==
    [a1 |-> {IndexEntry("e1", 0, 136), IndexEntry("e2", 136, 86),
             IndexEntry("e3", 222, 56)},
     a2 |-> {IndexEntry("e4", 0, 86)}]

\* body of GET make_url(key, dir)
ServerBody(dir, key) ==
    IF dir = "data" /\ key \in ArchiveKeys THEN Blob(<<"archive", key>>, ArchiveLen[key])
    ELSE Blob(<<dir, key>>, 64)

\* body of a GET with header Range: bytes={start}-{end}: HTTP ranges include
\* their last position, and stop at the end of the object
RangeBody(body, start, end) ==
    BSlice(body, start, IF end + 1 < BLen(body) THEN end + 1 ELSE BLen(body))

\* outcomes of client.get(url).send().await?.bytes().await?: the body
\* arrives, or one of the two awaits returns a reqwest::Error
NetOk       == "ok"
NetFails    == "fails"
NetOutcomes == {NetOk, NetFails}

(***************************************************************************)
(* BlizzCache (src/src/cdn.rs)                                             *)
(***************************************************************************)
WholePath(dir, key) == [dir |-> dir, key |-> key, seg |-> <<>>]

\* segment_path: {file_path}.segments/{start}_{end}
SegmentPath(file_path, start, end) == [file_path EXCEPT !.seg = <<start, end>>]

Request(path, range) == [dir |-> path.dir, key |-> path.key, range |-> range]

WriteFile(files, path, bytes) ==
    [p \in DOMAIN files \cup {path} |-> IF p = path THEN bytes ELSE files[p]]

\* the results of the cache functions: what is returned, and what was done
Fetched(files, reqs, data, hit) ==
    [files |-> files, reqs |-> reqs, ok |-> TRUE, err |-> "", data |-> data, hit |-> hit]

FetchErr(files, reqs, err) ==
    [files |-> files, reqs |-> reqs, ok |-> FALSE, err |-> err, data |-> <<>>, hit |-> "miss"]

\* mutant: the downloaded body is returned but not written to the cache
read_or_cache_NoWrite(files, file_path, body, net) ==
    IF file_path \in DOMAIN files
    THEN Fetched(files, <<>>, files[file_path], "file")
    ELSE LET req == <<Request(file_path, <<>>)>> IN
         IF net # NetOk THEN FetchErr(files, req, "HTTPRequestError")
         ELSE Fetched(files, req, body, "miss")

\* read_or_cache: body is what the server sends for url, net the transport
read_or_cache(files, file_path, body, net) ==
    IF file_path \in DOMAIN files
    THEN Fetched(files, <<>>, files[file_path], "file")
    ELSE LET req == <<Request(file_path, <<>>)>> IN
         IF net # NetOk THEN FetchErr(files, req, "HTTPRequestError")
         ELSE Fetched(WriteFile(files, file_path, body), req, body, "miss")

\* mutant: the sidecar file is created before the response has arrived
read_or_cache_segment_CreatesFirst(files, file_path, body, start, end, net) ==
    IF file_path \in DOMAIN files
    THEN IF BLen(files[file_path]) < end
         THEN FetchErr(files, <<>>, "IOError")
         ELSE Fetched(files, <<>>, BSlice(files[file_path], start, end), "file")
    ELSE LET segment_path == SegmentPath(file_path, start, end) IN
         IF segment_path \in DOMAIN files
         THEN Fetched(files, <<>>, files[segment_path], "segment")
         ELSE LET req == <<Request(file_path, <<start, end>>)>>
                  buf == RangeBody(body, start, end)
              IN  IF net # NetOk
                  THEN FetchErr(WriteFile(files, segment_path, <<>>), req,
                                "HTTPRequestError")
                  ELSE Fetched(WriteFile(files, segment_path, buf), req, buf, "miss")

\* read_or_cache_segment: body is the whole object behind url
read_or_cache_segment(files, file_path, body, start, end, net) ==
    IF file_path \in DOMAIN files
    THEN IF BLen(files[file_path]) < end
         THEN FetchErr(files, <<>>, "IOError")
         ELSE Fetched(files, <<>>, BSlice(files[file_path], start, end), "file")
    ELSE LET segment_path == SegmentPath(file_path, start, end) IN
         IF segment_path \in DOMAIN files
         THEN Fetched(files, <<>>, files[segment_path], "segment")
         ELSE LET req == <<Request(file_path, <<start, end>>)>>
                  buf == RangeBody(body, start, end)
              IN  IF net # NetOk THEN FetchErr(files, req, "HTTPRequestError")
                  ELSE Fetched(WriteFile(files, segment_path, buf), req, buf, "miss")

fetch_data(files, directory, key, net) ==
    read_or_cache(files, WholePath(directory, key), ServerBody(directory, key), net)

fetch_archive(files, archive, net) ==
    read_or_cache(files, WholePath("data", archive), ServerBody("data", archive), net)

get_byte_range(entry) ==
    [start |-> entry.offset_bytes, end |-> entry.offset_bytes + entry.size_bytes]

fetch_archive_entry(files, archive, entry, net) ==
    read_or_cache_segment(files, WholePath("data", archive),
                          ServerBody("data", archive),
                          entry.offset_bytes, entry.offset_bytes + entry.size_bytes, net)

Min(a, b) == IF a < b THEN a ELSE b
Max(a, b) == IF a > b THEN a ELSE b

\* mutant: the end of the range is narrowed instead of widened
RECURSIVE WidenRange_MinEnd(_, _)
WidenRange_MinEnd(range, entries) ==
    IF entries = <<>> THEN range
    ELSE LET new_range == get_byte_range(Head(entries))
         IN  WidenRange_MinEnd([start |-> Min(range.start, new_range.start),
                                end   |-> Min(range.end, new_range.end)],
                               Tail(entries))

\* the loop of fetch_archive_entries over entries, widening range
RECURSIVE WidenRange(_, _)
WidenRange(range, entries) ==
    IF entries = <<>> THEN range
    ELSE LET new_range == get_byte_range(Head(entries))
         IN  WidenRange([start |-> Min(range.start, new_range.start),
                         end   |-> Max(range.end, new_range.end)],
                        Tail(entries))

\* entries is a non-empty sequence (entries[0] is read unchecked)
fetch_archive_entries(files, archive, entries, net) ==
    LET range == WidenRange(get_byte_range(entries[1]), entries)
        r == read_or_cache_segment(files, WholePath("data", archive),
                                   ServerBody("data", archive),
                                   range.start, range.end, net)
    IN  [r EXCEPT !.data = IF r.ok THEN <<range.start, r.data>> ELSE <<>>]

(***************************************************************************)
(* BLTE (src/src/tact/btle.rs).  What the bytes of the CDN's archives say: *)
(* the BLTE header that starts at a position, the frame-type byte at a     *)
(* position, and what a zlib stream inflates to.                           *)
(***************************************************************************)
Loc(src, off) == [src |-> src, off |-> off]

BLTEChunk(compressed_size, uncompressed_size) ==
    [compressed_size |-> compressed_size, uncompressed_size |-> uncompressed_size]

BLTE_HEADER_BYTES == 12
BLTE_CHUNK_BYTES  == 24

\* the BLTE headers stored in the archives and in some stand-alone blobs
\* (magic "BLTE" is at these positions)
BlteHeaders ==
       Loc(<<"archive", "a1">>, 0)   :> [data_offset |-> 36, chunks |-> <<BLTEChunk(100, 99)>>]
    @@ Loc(<<"archive", "a1">>, 136) :> [data_offset |-> 36, chunks |-> <<BLTEChunk(50, 200)>>]
    @@ Loc(<<"archive", "a1">>, 222) :> [data_offset |-> 36, chunks |-> <<BLTEChunk(20, 19)>>]
    @@ Loc(<<"archive", "a2">>, 0)   :> [data_offset |-> 60,
                                         chunks |-> <<BLTEChunk(16, 15), BLTEChunk(10, 9)>>]
    @@ Loc(<<"blte", "nz">>, 0)      :> [data_offset |-> 60,
                                         chunks |-> <<BLTEChunk(11, 10), BLTEChunk(21, 64)>>]
    @@ Loc(<<"blte", "x">>, 0)       :> [data_offset |-> 36, chunks |-> <<BLTEChunk(5, 4)>>]
    @@ Loc(<<"blte", "empty">>, 0)   :> [data_offset |-> 36, chunks |-> <<BLTEChunk(0, 0)>>]
    @@ Loc(<<"blte", "badz">>, 0)    :> [data_offset |-> 36, chunks |-> <<BLTEChunk(9, 30)>>]
    @@ Loc(<<"blte", "none">>, 0)    :> [data_offset |-> 12, chunks |-> <<>>]

\* the first byte of each chunk of those blobs
FrameTypes ==
       Loc(<<"archive", "a1">>, 36)  :> "N"
    @@ Loc(<<"archive", "a1">>, 172) :> "Z"
    @@ Loc(<<"archive", "a1">>, 258) :> "E"
    @@ Loc(<<"archive", "a2">>, 60)  :> "N"
    @@ Loc(<<"archive", "a2">>, 76)  :> "N"
    @@ Loc(<<"blte", "nz">>, 60)     :> "N"
    @@ Loc(<<"blte", "nz">>, 71)     :> "Z"
    @@ Loc(<<"blte", "x">>, 36)      :> "X"
    @@ Loc(<<"blte", "badz">>, 36)   :> "Z"

\* the zlib streams stored in the archives, and the length they inflate to
ZlibStreams ==
       <<Run(<<"archive", "a1">>, 173, 49)>> :> 200
    @@ <<Run(<<"blte", "nz">>, 72, 20)>> :> 64

\* position in its blob of byte i of bs (0-based); the caller checks i < BLen(bs)
RECURSIVE Locate(_, _)
Locate(bs, i) ==
    LET r == Head(bs) IN
    IF i < r.len THEN Loc(r.src, r.off + i) ELSE Locate(Tail(bs), i - r.len)

DecodeOk(data)   == [kind |-> "ok", data |-> data, err |-> ""]
DecodeErr(err)   == [kind |-> "err", data |-> <<>>, err |-> err]
DecodePanic(msg) == [kind |-> "panic", data |-> <<>>, err |-> msg]

\* BLTEHeader::from_bytes((buf, 0)): magic, data_offset, flag, chunk_count, chunks
BLTEHeader_from_bytes(buf) ==
    IF BLen(buf) < BLTE_HEADER_BYTES THEN [ok |-> FALSE]
    ELSE IF Locate(buf, 0) \notin DOMAIN BlteHeaders THEN [ok |-> FALSE]
    ELSE LET h == BlteHeaders[Locate(buf, 0)] IN
         IF Head(buf).len < BLTE_HEADER_BYTES + BLTE_CHUNK_BYTES * Len(h.chunks)
         THEN [ok |-> FALSE]
         ELSE [ok |-> TRUE, data_offset |-> h.data_offset, chunks |-> h.chunks]

decompress_to_vec_zlib(chunk_data) ==
    IF chunk_data \in DOMAIN ZlibStreams
    THEN [ok |-> TRUE,
          data |-> Blob(<<"inflated", chunk_data[1].src, chunk_data[1].off>>,
                        ZlibStreams[chunk_data])]
    ELSE [ok |-> FALSE, data |-> <<>>]

\* mutant: the frame-type byte is taken for the first byte of the body
RECURSIVE DecodeChunks_KeepsTag(_, _, _, _)
DecodeChunks_KeepsTag(buf, chunks, data_offs, out) ==
    IF chunks = <<>> THEN DecodeOk(out)
    ELSE LET chunk == Head(chunks)
             stop  == data_offs + chunk.compressed_size
         IN  IF stop > BLen(buf) THEN DecodePanic("range end index out of range")
             ELSE IF chunk.compressed_size = 0 THEN DecodePanic("index out of bounds")
             ELSE LET frame_type == IF Locate(buf, data_offs) \in DOMAIN FrameTypes
                                    THEN FrameTypes[Locate(buf, data_offs)] ELSE "?"
                      chunk_data == BSlice(buf, data_offs, stop)
                  IN  IF frame_type = "N"
                      THEN DecodeChunks_KeepsTag(buf, Tail(chunks), stop,
                                                 BCat(out, chunk_data))
                      ELSE IF frame_type = "Z"
                      THEN LET z == decompress_to_vec_zlib(BSlice(buf, data_offs + 1, stop))
                           IN  IF z.ok
                               THEN DecodeChunks_KeepsTag(buf, Tail(chunks), stop,
                                                          BCat(out, z.data))
                               ELSE DecodeErr("ZlibError")
                      ELSE DecodePanic(frame_type)

\* the loop of decode_blte over header.chunks
RECURSIVE DecodeChunks(_, _, _, _)
DecodeChunks(buf, chunks, data_offs, out) ==
    IF chunks = <<>> THEN DecodeOk(out)
    ELSE LET chunk == Head(chunks)
             stop  == data_offs + chunk.compressed_size
         IN  IF stop > BLen(buf) THEN DecodePanic("range end index out of range")
             ELSE IF chunk.compressed_size = 0 THEN DecodePanic("index out of bounds")
             ELSE LET frame_type == IF Locate(buf, data_offs) \in DOMAIN FrameTypes
                                    THEN FrameTypes[Locate(buf, data_offs)] ELSE "?"
                      chunk_data == BSlice(buf, data_offs + 1, stop)
                  IN  IF frame_type = "N"
                      THEN DecodeChunks(buf, Tail(chunks), stop, BCat(out, chunk_data))
                      ELSE IF frame_type = "Z"
                      THEN LET z == decompress_to_vec_zlib(chunk_data) IN
                           IF z.ok
                           THEN DecodeChunks(buf, Tail(chunks), stop, BCat(out, z.data))
                           ELSE DecodeErr("ZlibError")
                      ELSE DecodePanic(frame_type)

decode_blte(buf) ==
    LET header == BLTEHeader_from_bytes(buf) IN
    IF ~header.ok THEN DecodeErr("DekuError")
    ELSE DecodeChunks(buf, header.chunks, header.data_offset, <<>>)

(***************************************************************************)
(* CDNFetcher: the parsed root, encoding and archive indices of a product. *)
(***************************************************************************)
RootFileEntry(ckey, name_hash) == [ckey |-> ckey, name_hash |-> name_hash]

\* EncodingFile.ckey_to_ekey (c5 has no encoding key)
Encoding == [c1 |-> "e1", c2 |-> "e2", c3 |-> "e4", c4 |-> "e3", c6 |-> "e9"]

\* CDNFetcher.archive_index: the ArchiveIndex list, in cdn config order
ArchiveIndexList ==
    <<[key |-> "a1", entries |-> ArchiveEntries["a1"]],
      [key |-> "a2", entries |-> ArchiveEntries["a2"]]>>

NoneFound == <<>>
Some(x) == <<x>>

get_ekey_for_ckey(encoding, ckey) ==
    IF ckey \in DOMAIN encoding THEN Some(encoding[ckey]) ELSE NoneFound

get_entry_for_ekey(index, ekey) ==
    IF \E e \in index.entries : e.ekey = ekey
    THEN Some(CHOOSE e \in index.entries : e.ekey = ekey) ELSE NoneFound

RECURSIVE find_archive_entry(_, _)
find_archive_entry(archive_index, ekey) ==
    IF archive_index = <<>> THEN NoneFound
    ELSE LET entry == get_entry_for_ekey(Head(archive_index), ekey) IN
         IF entry # NoneFound
         THEN Some([archive |-> Head(archive_index).key, archive_entry |-> entry[1]])
         ELSE find_archive_entry(Tail(archive_index), ekey)

\* three products; the root maps file id -> root entry
CdnRetail ==
    [root |-> (20 :> RootFileEntry("c1", 2001) @@ 10 :> RootFileEntry("c2", 1001)
               @@ 30 :> RootFileEntry("c5", 3001)),
     encoding |-> Encoding, archive_index |-> ArchiveIndexList]

CdnClassic ==
    [root |-> (10 :> RootFileEntry("c3", 1002) @@ 30 :> RootFileEntry("c3", 3002)
               @@ 40 :> RootFileEntry("c6", 4002)),
     encoding |-> Encoding, archive_index |-> ArchiveIndexList]

CdnEncrypted ==
    [root |-> (50 :> RootFileEntry("c4", 5003) @@ 5 :> RootFileEntry("c3", 53)),
     encoding |-> Encoding, archive_index |-> ArchiveIndexList]

(***************************************************************************)
(* ArchiveIndex::parse (src/src/tact/archive.rs).  An index file is a      *)
(* sequence of pieces, each a record with its length in bytes: a run of    *)
(* 24-byte entries with consecutive keys, a run of zero bytes, a run of    *)
(* other bytes (the table of contents), or the 0x24-byte footer.  An EKey  *)
(* is the number its 16 bytes spell; NULL_EKEY is 0.                       *)
(***************************************************************************)
NULL_EKEY == 0

ARCHIVE_ENTRY_BYTES == 24
FOOTER_BYTES == 36

\* count entries, the j-th (from 0) with key first + j
EntriesPiece(first, count) ==
    [kind |-> "entries", len |-> ARCHIVE_ENTRY_BYTES * count, first |-> first]

\* the entry stored under key k
IndexEntryOf(k) == [ekey |-> k, size_bytes |-> 100, offset_bytes |-> 100 * (k - 1)]

ZeroPiece(len) == [kind |-> "zeros", len |-> len]

TocPiece(len) == [kind |-> "toc", len |-> len]

FooterPiece(version, block_size_kb, num_files) ==
    [kind |-> "footer", len |-> FOOTER_BYTES, version |-> version,
     block_size_kb |-> block_size_kb, offset_bytes |-> 4, size_bytes |-> 4,
     key_size_in_bytes |-> 16, checksum_size |-> 8, num_files |-> num_files]

RECURSIVE DataLen(_)
DataLen(data) == IF data = <<>> THEN 0 ELSE Head(data).len + DataLen(Tail(data))

\* the piece that holds byte pos, and where that piece starts
RECURSIVE PieceAt(_, _, _)
PieceAt(data, pos, start) ==
    IF pos < start + Head(data).len THEN [piece |-> Head(data), start |-> start]
    ELSE PieceAt(Tail(data), pos, start + Head(data).len)

\* the n bytes from pos on are all zero (pos + n <= DataLen(data))
RECURSIVE AllZero(_, _, _)
AllZero(data, pos, n) ==
    IF n <= 0 THEN TRUE
    ELSE LET p == PieceAt(data, pos, 0)
             stop == p.start + p.piece.len
         IN  /\ p.piece.kind = "zeros"
             /\ AllZero(data, stop, n - (stop - pos))

\* ArchiveIndexEntry::from_bytes on the 24 bytes at pos: a stored entry
\* gives its fields; 16 zero bytes give NULL_EKEY; other bytes give a key
\* that no entry has
ArchiveIndexEntry_from_bytes(data, pos) ==
    LET p == PieceAt(data, pos, 0) IN
    IF p.piece.kind = "entries" /\ (pos - p.start) % ARCHIVE_ENTRY_BYTES = 0
    THEN IndexEntryOf(p.piece.first + (pos - p.start) \div ARCHIVE_ENTRY_BYTES)
    ELSE IF AllZero(data, pos, 16)
    THEN [ekey |-> NULL_EKEY, size_bytes |-> 0, offset_bytes |-> 0]
    ELSE [ekey |-> 1000000 + pos, size_bytes |-> 0, offset_bytes |-> 0]

\* ArchiveIndexFooter::from_bytes with its assert_eq attributes
ArchiveIndexFooter_from_bytes(data, footer_offset) ==
    LET p == PieceAt(data, footer_offset, 0) IN
    IF /\ p.piece.kind = "footer" /\ p.start = footer_offset
       /\ p.piece.version = 1 /\ p.piece.block_size_kb = 4
       /\ p.piece.offset_bytes = 4 /\ p.piece.size_bytes = 4
       /\ p.piece.key_size_in_bytes = 16 /\ p.piece.checksum_size = 8
    THEN [ok |-> TRUE, block_size_kb |-> p.piece.block_size_kb,
          num_files |-> p.piece.num_files]
    ELSE [ok |-> FALSE]

\* the inner loop over one block, in closed form: the entries are read at
\* pos, pos + 24, ... until one has NULL_EKEY or fewer than 24 bytes are
\* left; each is inserted under its key (a later one replaces an earlier
\* one) and counted.  acc is [entries, num_files], entries the set of the
\* HashMap's values.
ParseBlock(data, pos, block_end, acc) ==
    LET slots == (block_end - pos) \div ARCHIVE_ENTRY_BYTES
        at    == [k \in 0..(slots - 1) |->
                     ArchiveIndexEntry_from_bytes(data, pos + ARCHIVE_ENTRY_BYTES * k)]
        nulls == {k \in 0..(slots - 1) : at[k].ekey = NULL_EKEY}
        n     == IF nulls = {} THEN slots
                 ELSE CHOOSE k \in nulls : \A j \in nulls : k <= j
        kept  == {k \in 0..(n - 1) : \A j \in (k + 1)..(n - 1) : at[j].ekey # at[k].ekey}
    IN  [entries |-> {e \in acc.entries : \A k \in kept : at[k].ekey # e.ekey}
                        \cup {at[k] : k \in kept},
         num_files |-> acc.num_files + n]

ParseOk(key, entries) == [kind |-> "ok", key |-> key, entries |-> entries]
ParseErr(err)   == [kind |-> "err", err |-> err]
ParsePanic(msg) == [kind |-> "panic", err |-> msg]

\* the outer loop: block after block until num_files >= footer.num_files
RECURSIVE ParseBlocks(_, _, _, _, _)
ParseBlocks(key, data, footer, block_start, acc) ==
    LET block_size == footer.block_size_kb * 1024
        block_end  == block_start + block_size
    IN  IF block_end > DataLen(data) THEN ParsePanic("range end index out of range")
        ELSE LET acc1 == ParseBlock(data, block_start, block_end, acc) IN
             IF acc1.num_files >= footer.num_files THEN ParseOk(key, acc1.entries)
             ELSE ParseBlocks(key, data, footer, block_start + block_size, acc1)

ArchiveIndex_parse(key, data) ==
    IF DataLen(data) < FOOTER_BYTES THEN ParsePanic("attempt to subtract with overflow")
    ELSE LET footer == ArchiveIndexFooter_from_bytes(data, DataLen(data) - FOOTER_BYTES) IN
         IF ~footer.ok THEN ParseErr("DekuError")
         ELSE ParseBlocks(key, data, footer, 0, [entries |-> {}, num_files |-> 0])

(***************************************************************************)
(* RootFile::parse (src/src/tact/root.rs).  A u32 is kept as its two       *)
(* 16-bit halves, so that sums up to and past 2^32 can be formed.          *)
(***************************************************************************)
U32(hi, lo) == [hi |-> hi, lo |-> lo]

U32Of(n) == U32(n \div 65536, n % 65536)

U32_MAX == U32(65535, 65535)

\* a + b in u32: the wrapped sum, and whether it passed 2^32
U32Add(a, b) ==
    LET lo == a.lo + b.lo
        hi == a.hi + b.hi + lo \div 65536
    IN  [sum |-> U32(hi % 65536, lo % 65536), overflow |-> hi >= 65536]

U32Less(a, b) == a.hi < b.hi \/ (a.hi = b.hi /\ a.lo < b.lo)

\* a root block as RootBlock::from_bytes reads it; whole is FALSE for a
\* block whose bytes end early
RootBlock(file_id_delta_table, file_entries, whole) ==
    [num_files |-> Len(file_entries), content_flags |-> 0, locale_flags |-> 0,
     file_id_delta_table |-> file_id_delta_table, file_entries |-> file_entries,
     whole |-> whole]

MapInsert(map, k, v) == [x \in DOMAIN map \cup {k} |-> IF x = k THEN v ELSE map[x]]

RootOk(r) == [kind |-> "ok", entries |-> r.entries,
              file_id_to_entry_index |-> r.file_id_to_entry_index,
              name_hash_to_entry_index |-> r.name_hash_to_entry_index]
RootErr(err) == [kind |-> "err", err |-> err]
RootPanic(msg) == [kind |-> "panic", err |-> msg]

\* what an overflowing `+=` on a u32 does: debug builds panic, release
\* builds wrap
Builds == {"debug", "release"}

\* mutant: the id is not stepped past the entry just recorded
RECURSIVE ParseRootBlock_NoGap(_, _, _, _, _)
ParseRootBlock_NoGap(block, i, file_id, r, build) ==
    IF i > Len(block.file_entries) THEN [r EXCEPT !.kind = "ok"]
    ELSE LET a == U32Add(file_id, block.file_id_delta_table[i]) IN
         IF a.overflow /\ build = "debug" THEN RootPanic("attempt to add with overflow")
         ELSE ParseRootBlock_NoGap(block, i + 1, a.sum,
                 [r EXCEPT !.file_id_to_entry_index = MapInsert(@, a.sum, Len(r.entries)),
                           !.name_hash_to_entry_index =
                               MapInsert(@, block.file_entries[i].name_hash, Len(r.entries)),
                           !.entries = Append(@, block.file_entries[i])],
                 build)

\* the loop over zip(file_id_delta_table, file_entries) of one block; r is
\* [entries, file_id_to_entry_index, name_hash_to_entry_index]
RECURSIVE ParseRootBlock(_, _, _, _, _)
ParseRootBlock(block, i, file_id, r, build) ==
    IF i > Len(block.file_entries) THEN [r EXCEPT !.kind = "ok"]
    ELSE LET a == U32Add(file_id, block.file_id_delta_table[i])
             b == U32Add(a.sum, U32Of(1))
         IN  IF a.overflow /\ build = "debug" THEN RootPanic("attempt to add with overflow")
             ELSE IF b.overflow /\ build = "debug"
             THEN RootPanic("attempt to add with overflow")
             ELSE ParseRootBlock(block, i + 1, b.sum,
                     [r EXCEPT !.file_id_to_entry_index = MapInsert(@, a.sum, Len(r.entries)),
                               !.name_hash_to_entry_index =
                                   MapInsert(@, block.file_entries[i].name_hash, Len(r.entries)),
                               !.entries = Append(@, block.file_entries[i])],
                     build)

\* the outer loop: blocks are read until RootBlock::from_bytes fails
RECURSIVE ParseRootBlocks(_, _, _)
ParseRootBlocks(rest, r, build) ==
    IF rest = <<>> \/ ~Head(rest).whole THEN RootOk(r)
    ELSE LET r1 == ParseRootBlock(Head(rest), 1, U32Of(0), r, build) IN
         IF r1.kind = "panic" THEN r1
         ELSE ParseRootBlocks(Tail(rest), r1, build)

\* data is [blte, blocks]: the BLTE buffer, and the root blocks that its
\* decoded bytes spell
RootFile_parse(data, build) ==
    LET decode == decode_blte(data.blte) IN
    IF decode.kind = "panic" THEN RootPanic(decode.err)
    ELSE IF decode.kind = "err" THEN RootErr(decode.err)
    ELSE ParseRootBlocks(data.blocks,
                         [kind |-> "ok", entries |-> <<>>,
                          file_id_to_entry_index |-> <<>>,
                          name_hash_to_entry_index |-> <<>>],
                         build)

(***************************************************************************)
(* CKey / EKey and their hex form (src/src/tact/common.rs).  A key is a    *)
(* sequence of 16 bytes, a string a sequence of one-character strings.     *)
(***************************************************************************)
KEY_BYTES == 16

LowerHexDigits == <<"0", "1", "2", "3", "4", "5", "6", "7", "8", "9",
                    "a", "b", "c", "d", "e", "f">>

UpperHexDigits == <<"0", "1", "2", "3", "4", "5", "6", "7", "8", "9",
                    "A", "B", "C", "D", "E", "F">>

\* format!("{:x}", b): the digits of b, no leading zero
LowerHex(b) ==
    IF b < 16 THEN <<LowerHexDigits[b + 1]>>
    ELSE <<LowerHexDigits[(b \div 16) + 1], LowerHexDigits[(b % 16) + 1]>>

RECURSIVE PushHex(_, _)
PushHex(result, hex) ==
    IF hex = <<>> THEN result
    ELSE PushHex(result \o LowerHex(Head(hex)), Tail(hex))

to_string(key) == PushHex(<<>>, key)

IsHexDigit(c) == \E d \in 1..16 : c \in {LowerHexDigits[d], UpperHexDigits[d]}

DigitValue(c) == (CHOOSE d \in 1..16 : c \in {LowerHexDigits[d], UpperHexDigits[d]}) - 1

\* u8::from_str_radix(hex, 16) of a two-character string: an optional '+',
\* then digits of either case
from_str_radix(hex) ==
    IF IsHexDigit(hex[1]) /\ IsHexDigit(hex[2])
    THEN Some(DigitValue(hex[1]) * 16 + DigitValue(hex[2]))
    ELSE IF hex[1] = "+" /\ IsHexDigit(hex[2]) THEN Some(DigitValue(hex[2]))
    ELSE NoneFound

KeyOk(key) == [kind |-> "ok", key |-> key]
KeyErr(len) == [kind |-> "err", err |-> <<"requires string length of 16, got", len>>]
KeyPanic == [kind |-> "panic", msg |-> "called Result::unwrap() on an Err value"]

from_str(s) ==
    IF Len(s) # 2 * KEY_BYTES THEN KeyErr(Len(s))
    ELSE LET hex(i) == SubSeq(s, 2 * i - 1, 2 * i)
         IN  IF \E i \in 1..KEY_BYTES : from_str_radix(hex(i)) = NoneFound
             THEN KeyPanic
             ELSE KeyOk([i \in 1..KEY_BYTES |-> from_str_radix(hex(i))[1]])

(***************************************************************************)
(* Variable-length quantities (src/src/vlq.rs): u32 values in groups of    *)
(* seven bits, one group per byte, the top bit of a byte saying that       *)
(* another byte follows.                                                   *)
(***************************************************************************)
\* a | b on values below 2^bits
RECURSIVE BitOr(_, _, _)
BitOr(a, b, bits) ==
    IF bits = 0 THEN 0
    ELSE (IF a % 2 = 1 \/ b % 2 = 1 THEN 1 ELSE 0) + 2 * BitOr(a \div 2, b \div 2, bits - 1)

\* out |= (value as u32) & 0x7F
OrLow7(out, value) ==
    U32(out.hi, (out.lo \div 128) * 128 + BitOr(out.lo % 128, value % 128, 7))

\* out <<= 7 on a u32: the bits shifted past bit 31 are dropped
Shl7(out) ==
    U32((out.hi * 128 + (out.lo * 128) \div 65536) % 65536, (out.lo * 128) % 65536)

\* value >>= 7
Shr7(value) == U32(value.hi \div 128, value.lo \div 128 + (value.hi % 128) * 512)

VlqOk(rest, value) == [kind |-> "ok", rest |-> rest, value |-> value]
VlqErr == [kind |-> "err", err |-> "DekuError::Incomplete"]

RECURSIVE VlqReadLoop(_, _)
VlqReadLoop(rest, out) ==
    IF rest = <<>> THEN VlqErr
    ELSE LET value == Head(rest)
             acc == OrLow7(out, value)
         IN  IF value \div 128 = 0 THEN VlqOk(Tail(rest), acc)
             ELSE VlqReadLoop(Tail(rest), Shl7(acc))

vlq_read(rest) == VlqReadLoop(rest, U32Of(0))

RECURSIVE vlq_write(_, _)
vlq_write(value, output) ==
    LET x == value.lo % 128
        shifted == Shr7(value)
    IN  IF shifted # U32Of(0) THEN vlq_write(shifted, Append(output, x + 128))
        ELSE Append(output, x)

(***************************************************************************)
(* Paths and name hashes.  A path is a sequence of one-character strings.  *)
(***************************************************************************)
\* str::to_ascii_uppercase on one character: a-z map to A-Z, the rest stays
AsciiUpper == ("a" :> "A" @@ "b" :> "B")

to_ascii_uppercase(name) ==
    [i \in 1..Len(name) |->
        IF name[i] \in DOMAIN AsciiUpper THEN AsciiUpper[name[i]] ELSE name[i]]

\* str::replace(from, to) for one-character patterns
replace(name, from, to) ==
    [i \in 1..Len(name) |-> IF name[i] = from THEN to ELSE name[i]]

\* mutant: the slashes are left as they are
normalized_KeepsSlashes(name) == to_ascii_uppercase(name)

\* name.to_ascii_uppercase().replace("/", "\\")
normalized(name) == replace(to_ascii_uppercase(name), "/", "\\")

\* the bytes of the characters (as_bytes)
AsciiCode == ("a" :> 97 @@ "b" :> 98 @@ "A" :> 65 @@ "B" :> 66 @@ "/" :> 47 @@ "\\" :> 92)

\* hashers::jenkins::lookup3 is a function of the bytes alone; this one
\* stands for it (it tells apart all paths of up to three characters)
RECURSIVE lookup3(_)
lookup3(bytes) ==
    IF bytes = <<>> THEN 0
    ELSE lookup3(SubSeq(bytes, 1, Len(bytes) - 1)) * 131 + AsciiCode[bytes[Len(bytes)]]

\* RootFile::get_ckey_for_file_id over the root's file id -> entry table
get_ckey_for_file_id(root, file_id) ==
    IF file_id \in DOMAIN root THEN Some(root[file_id].ckey) ELSE NoneFound

\* RootFile::get_ckey_for_file_path: normalize, hash, look the hash up
get_ckey_for_file_path(root, name) ==
    LET name_hash == lookup3(normalized(name)) IN
    IF \E f \in DOMAIN root : root[f].name_hash = name_hash
    THEN Some(root[CHOOSE f \in DOMAIN root : root[f].name_hash = name_hash].ckey)
    ELSE NoneFound

\* SheepfileReader::parse after Index::from_bytes: entry i goes into both
\* maps under its file id and its name hash, a later entry replacing an
\* earlier one
RECURSIVE IndexEntries(_, _, _)
IndexEntries(entries, i, reader) ==
    IF i > Len(entries) THEN reader
    ELSE IndexEntries(entries, i + 1,
           [reader EXCEPT
              !.file_ids_to_entry_index = MapInsert(@, entries[i].file_id, i),
              !.name_hash_to_entry_index = MapInsert(@, entries[i].name_hash, i)])

SheepfileReader(entries) ==
    IndexEntries(entries, 1, [entries |-> entries, file_ids_to_entry_index |-> <<>>,
                              name_hash_to_entry_index |-> <<>>])

\* SheepfileReader::get_entry_for_name: normalize, hash, look the hash up
get_entry_for_name(reader, name) ==
    LET name_hash == lookup3(normalized(name)) IN
    IF name_hash \in DOMAIN reader.name_hash_to_entry_index
    THEN Some(reader.entries[reader.name_hash_to_entry_index[name_hash]])
    ELSE NoneFound

\* a product whose root entries carry the name hashes of real paths
CdnNamed ==
    [root |-> (20 :> RootFileEntry("c1", lookup3(<<"A", "\\", "B">>))
               @@ 10 :> RootFileEntry("c2", lookup3(<<"B", "\\", "A">>))
               @@ 30 :> RootFileEntry("c5", lookup3(<<"A">>))
               @@ 40 :> RootFileEntry("c6", lookup3(<<"B">>))
               @@ 50 :> RootFileEntry("c4", lookup3(<<"B", "B">>))),
     encoding |-> Encoding, archive_index |-> ArchiveIndexList]

(***************************************************************************)
(* CDNFetcher::fetch_file_id / fetch_file_name (src/src/cdn.rs)            *)
(***************************************************************************)
FetchRes(kind, data, err, arg, files, reqs) ==
    [kind |-> kind, data |-> data, err |-> err, arg |-> arg,
     files |-> files, reqs |-> reqs]

\* Ok(None), Ok(Some(data)) or Err(e), with what the cache did
fetch_ckey_from_archive(files, cdn, ckey, net) ==
    LET ekey == get_ekey_for_ckey(cdn.encoding, ckey) IN
    IF ekey = NoneFound THEN [kind |-> "none", files |-> files, reqs |-> <<>>]
    ELSE LET found == find_archive_entry(cdn.archive_index, ekey[1]) IN
         IF found = NoneFound THEN [kind |-> "none", files |-> files, reqs |-> <<>>]
         ELSE LET r == fetch_archive_entry(files, found[1].archive,
                                           found[1].archive_entry, net)
              IN  IF r.ok
                  THEN [kind |-> "some", data |-> r.data, files |-> r.files, reqs |-> r.reqs]
                  ELSE [kind |-> "err", err |-> r.err, files |-> r.files, reqs |-> r.reqs]

\* the second and third line of fetch_file_id and of fetch_file_name
FetchCKey(files, cdn, ckey, net) ==
    LET compressed_data == fetch_ckey_from_archive(files, cdn, ckey, net) IN
    IF compressed_data.kind = "err"
    THEN FetchRes("err", <<>>, compressed_data.err, <<>>,
                  compressed_data.files, compressed_data.reqs)
    ELSE IF compressed_data.kind = "none"
    THEN FetchRes("err", <<>>, "MissingCKey", <<>>, files, <<>>)
    ELSE LET d == decode_blte(compressed_data.data) IN
         FetchRes(d.kind, d.data, d.err, <<>>,
                  compressed_data.files, compressed_data.reqs)

\* mutant: an absent file id is reported as a missing CKey
fetch_file_id_WrongError(files, cdn, file_id, net) ==
    LET ckey == get_ckey_for_file_id(cdn.root, file_id) IN
    IF ckey = NoneFound
    THEN FetchRes("err", <<>>, "MissingCKey", <<>>, files, <<>>)
    ELSE FetchCKey(files, cdn, ckey[1], net)

fetch_file_id(files, cdn, file_id, net) ==
    LET ckey == get_ckey_for_file_id(cdn.root, file_id) IN
    IF ckey = NoneFound
    THEN FetchRes("err", <<>>, "MissingFileId", <<file_id>>, files, <<>>)
    ELSE FetchCKey(files, cdn, ckey[1], net)

fetch_file_name(files, cdn, path, net) ==
    LET ckey == get_ckey_for_file_path(cdn.root, path) IN
    IF ckey = NoneFound
    THEN FetchRes("err", <<>>, "MissingFileName", <<path>>, files, <<>>)
    ELSE FetchCKey(files, cdn, ckey[1], net)

(***************************************************************************)
(* SheepfileWriter::write_cdn_files: the pieces of its three loops.        *)
(***************************************************************************)
WorkItem(file_id, name_hash, archive_entry, archive, cdn) ==
    [file_id |-> file_id, name_hash |-> name_hash, archive_entry |-> archive_entry,
     archive |-> archive, cdn |-> cdn]

Skip(l, cdn, file_id, why) ==
    [l EXCEPT !.skips = @ \cup {[cdn |-> cdn, file_id |-> file_id, why |-> why]}]

\* mutant: ids that an earlier source supplied are not passed over
resolve_file_id_Again(l, cdn, ci, file_id) ==
    LET root_entry == cdn.root[file_id]
        ekey == get_ekey_for_ckey(cdn.encoding, root_entry.ckey)
    IN  IF ekey = NoneFound THEN Skip(l, ci, file_id, "no ekey")
        ELSE LET found == find_archive_entry(cdn.archive_index, ekey[1]) IN
             IF found = NoneFound THEN Skip(l, ci, file_id, "no archive entry")
             ELSE LET key == found[1].archive
                      item == WorkItem(file_id, root_entry.name_hash,
                                       found[1].archive_entry, key, ci)
                      a2e == l.archive_to_entries
                  IN  [l EXCEPT !.archive_to_entries =
                          [k \in DOMAIN a2e \cup {key} |->
                              IF k = key
                              THEN Append(IF k \in DOMAIN a2e THEN a2e[k] ELSE <<>>, item)
                              ELSE a2e[k]],
                        !.all_file_ids = @ \cup {file_id}]

\* mutant: a miss throws away what the source has queued so far
resolve_file_id_MissClears(l, cdn, ci, file_id) ==
    IF file_id \in l.all_file_ids THEN Skip(l, ci, file_id, "seen")
    ELSE LET root_entry == cdn.root[file_id]
             ekey == get_ekey_for_ckey(cdn.encoding, root_entry.ckey)
             l0 == [l EXCEPT !.archive_to_entries = <<>>]
         IN  IF ekey = NoneFound THEN Skip(l0, ci, file_id, "no ekey")
             ELSE LET found == find_archive_entry(cdn.archive_index, ekey[1]) IN
                  IF found = NoneFound THEN Skip(l0, ci, file_id, "no archive entry")
                  ELSE LET key == found[1].archive
                           item == WorkItem(file_id, root_entry.name_hash,
                                            found[1].archive_entry, key, ci)
                           a2e == l.archive_to_entries
                       IN  [l EXCEPT !.archive_to_entries =
                               [k \in DOMAIN a2e \cup {key} |->
                                   IF k = key
                                   THEN Append(IF k \in DOMAIN a2e THEN a2e[k] ELSE <<>>, item)
                                   ELSE a2e[k]],
                             !.all_file_ids = @ \cup {file_id}]

\* mutant: the id is marked as seen before it has been resolved
resolve_file_id_MarksFirst(l, cdn, ci, file_id) ==
    IF file_id \in l.all_file_ids THEN Skip(l, ci, file_id, "seen")
    ELSE LET root_entry == cdn.root[file_id]
             ekey == get_ekey_for_ckey(cdn.encoding, root_entry.ckey)
             l1 == [l EXCEPT !.all_file_ids = @ \cup {file_id}]
         IN  IF ekey = NoneFound THEN Skip(l1, ci, file_id, "no ekey")
             ELSE LET found == find_archive_entry(cdn.archive_index, ekey[1]) IN
                  IF found = NoneFound THEN Skip(l1, ci, file_id, "no archive entry")
                  ELSE LET key == found[1].archive
                           item == WorkItem(file_id, root_entry.name_hash,
                                            found[1].archive_entry, key, ci)
                           a2e == l.archive_to_entries
                       IN  [l1 EXCEPT !.archive_to_entries =
                               [k \in DOMAIN a2e \cup {key} |->
                                   IF k = key
                                   THEN Append(IF k \in DOMAIN a2e THEN a2e[k] ELSE <<>>, item)
                                   ELSE a2e[k]]]

\* one iteration of the loop over cdn.root.file_id_to_entry_index; l holds
\* all_file_ids, archive_to_entries and the ids passed over so far
resolve_file_id(l, cdn, ci, file_id) ==
    IF file_id \in l.all_file_ids THEN Skip(l, ci, file_id, "seen")
    ELSE LET root_entry == cdn.root[file_id]
             ekey == get_ekey_for_ckey(cdn.encoding, root_entry.ckey)
         IN  IF ekey = NoneFound THEN Skip(l, ci, file_id, "no ekey")
             ELSE LET found == find_archive_entry(cdn.archive_index, ekey[1]) IN
                  IF found = NoneFound THEN Skip(l, ci, file_id, "no archive entry")
                  ELSE LET key == found[1].archive
                           item == WorkItem(file_id, root_entry.name_hash,
                                            found[1].archive_entry, key, ci)
                           a2e == l.archive_to_entries
                       IN  [l EXCEPT !.archive_to_entries =
                               [k \in DOMAIN a2e \cup {key} |->
                                   IF k = key
                                   THEN Append(IF k \in DOMAIN a2e THEN a2e[k] ELSE <<>>, item)
                                   ELSE a2e[k]],
                             !.all_file_ids = @ \cup {file_id}]

\* x goes after the items whose file id is not greater (the sort is stable)
RECURSIVE InsertByFileId(_, _)
InsertByFileId(sorted, x) ==
    IF sorted = <<>> THEN <<x>>
    ELSE IF Head(sorted).file_id <= x.file_id
         THEN <<Head(sorted)>> \o InsertByFileId(Tail(sorted), x)
         ELSE <<x>> \o sorted

RECURSIVE SortPrefix(_, _)
SortPrefix(entries, n) ==
    IF n = 0 THEN <<>> ELSE InsertByFileId(SortPrefix(entries, n - 1), entries[n])

\* mutant: the work list is written in the order it was collected
sort_by_file_id_Unsorted(entries) == entries

\* all_entries.sort_by(|a, b| a.0.cmp(&b.0))
sort_by_file_id(entries) == SortPrefix(entries, Len(entries))

NoDecode == [file_id |-> 0]

PipelineIdle ==
    /\ cdns = <<>>
    /\ pc = "idle"
    /\ wl = [ci |-> 0]
    /\ ret = ""
    /\ skipped = {}
    /\ emitted = <<>>
    /\ decoded = NoDecode

(***************************************************************************)
(* Specification of the cache: calls of the BlizzCache functions, one      *)
(* after the other, against a CDN whose transport may fail.                *)
(***************************************************************************)
MaxRequests == 2

CacheFresh ==
    /\ cache_files = <<>>
    /\ requests = <<>>
    /\ served = <<>>
    /\ last = [op |-> "none"]
    /\ tasks = NoTasks

WriterIdle ==
    /\ writer = NewWriter
    /\ seg_files = (0 :> <<>>)
    /\ index_file = Absent
    /\ wstatus = "open"
    /\ appended = <<>>
    /\ rd = NoRead

InitCache == WriterIdle /\ CacheFresh /\ PipelineIdle /\ call = NoCall

RECURSIVE AddRequests(_, _)
AddRequests(bag, reqs) ==
    IF reqs = <<>> THEN bag
    ELSE LET q == Head(reqs) IN
         AddRequests([x \in DOMAIN bag \cup {q} |->
                         IF x = q THEN (IF q \in DOMAIN bag THEN bag[q] + 1 ELSE 1)
                         ELSE bag[x]],
                     Tail(reqs))

RECURSIVE SumOver(_, _)
SumOver(bag, S) ==
    IF S = {} THEN 0
    ELSE LET x == CHOOSE y \in S : TRUE IN bag[x] + SumOver(bag, S \ {x})

RequestCount == SumOver(requests, DOMAIN requests)

RequestsLeft == RequestCount < MaxRequests

\* the transport outcome is drawn only when the call will send a request
NetChoices(path, whole) ==
    IF path \in DOMAIN cache_files \/ whole \in DOMAIN cache_files
    THEN {NetOk} ELSE NetOutcomes

\* the bookkeeping common to every cache call
Record(op, path, args, net, r) ==
    /\ cache_files' = r.files
    /\ requests' = AddRequests(requests, r.reqs)
    /\ served' = IF r.ok /\ path \notin DOMAIN served
                 THEN WriteFile(served, path, r.data) ELSE served
    /\ last' = [op |-> op, path |-> path, args |-> args, net |-> net,
                ok |-> r.ok, err |-> r.err,
                data |-> r.data, hit |-> r.hit, nreq |-> Len(r.reqs),
                before |-> cache_files, after |-> r.files,
                earlier |-> IF path \in DOMAIN served THEN <<served[path]>> ELSE <<>>,
                reqs |-> r.reqs]
    /\ UNCHANGED <<wvars, pvars, call, tasks>>

DataKeys == {"c0nf"}

FetchData ==
    /\ RequestsLeft
    /\ \E key \in DataKeys :
       \E net \in NetChoices(WholePath("config", key), WholePath("config", key)) :
          Record("fetch_data", WholePath("config", key), <<>>, net,
                 fetch_data(cache_files, "config", key, net))

FetchArchive ==
    /\ RequestsLeft
    /\ \E archive \in ArchiveKeys :
       \E net \in NetChoices(WholePath("data", archive), WholePath("data", archive)) :
          Record("fetch_archive", WholePath("data", archive), <<>>, net,
                 fetch_archive(cache_files, archive, net))

FetchArchiveEntry ==
    /\ RequestsLeft
    /\ \E archive \in ArchiveKeys :
       \E entry \in ArchiveEntries[archive] :
          LET whole == WholePath("data", archive)
              path  == SegmentPath(whole, entry.offset_bytes,
                                   entry.offset_bytes + entry.size_bytes)
          IN  \E net \in NetChoices(path, whole) :
                 Record("fetch_archive_entry", path, <<entry>>, net,
                        fetch_archive_entry(cache_files, archive, entry, net))

\* the entry lists handed to fetch_archive_entries: one entry, or several
\* that are not in offset order
EntryLists(archive) ==
    LET E == ArchiveEntries[archive] IN
    {<<a>> : a \in E} \cup
    {l \in E \X E : l[1].offset_bytes > l[2].offset_bytes} \cup
    {l \in E \X E \X E : /\ l[1].offset_bytes > l[2].offset_bytes
                          /\ l[3].offset_bytes > l[1].offset_bytes}

FetchArchiveEntries ==
    /\ RequestsLeft
    /\ \E archive \in ArchiveKeys :
       \E entries \in EntryLists(archive) :
          LET range == WidenRange(get_byte_range(entries[1]), entries)
              whole == WholePath("data", archive)
              path  == SegmentPath(whole, range.start, range.end)
          IN  \E net \in NetChoices(path, whole) :
                 Record("fetch_archive_entries", path, entries, net,
                        fetch_archive_entries(cache_files, archive, entries, net))

NextCache ==
    \/ FetchData
    \/ FetchArchive
    \/ FetchArchiveEntry
    \/ FetchArchiveEntries

SpecCache == InitCache /\ [][NextCache]_vars

(***************************************************************************)
(* Specification of concurrent fetches: tasks that share one cache         *)
(* directory each run read_or_cache or read_or_cache_segment once.  A step *)
(* is what a task does between two of its .await points; fs::write is     *)
(* File::create (which truncates) followed by write_all.  A crash ends     *)
(* every task that is under way and leaves the files as they are; tasks    *)
(* that start afterwards find them.                                        *)
(***************************************************************************)
MaxTasks == 2

TaskIds == 1..MaxTasks

\* the calls: fetch_archive of a2, and range fetches within a2 and a1
TaskCalls ==
    {[op |-> "read_or_cache", file_path |-> WholePath("data", "a2"), range |-> <<>>],
     [op |-> "read_or_cache_segment", file_path |-> WholePath("data", "a2"),
      range |-> <<0, 86>>],
     [op |-> "read_or_cache_segment", file_path |-> WholePath("data", "a1"),
      range |-> <<136, 222>>]}

Idle == [at |-> "idle"]

UnderWay(t) == tasks[t].at \notin {"idle", "done", "aborted"}

InitTasks ==
    /\ WriterIdle
    /\ PipelineIdle
    /\ call = NoCall
    /\ cache_files = <<>>
    /\ requests = <<>>
    /\ served = <<>>
    /\ last = [op |-> "none"]
    /\ tasks = [t \in TaskIds |-> Idle]

\* the task moves on; the files and the requests are given
Step(t, task, files, reqs) ==
    /\ tasks' = [tasks EXCEPT ![t] = task]
    /\ cache_files' = files
    /\ requests' = AddRequests(requests, reqs)
    /\ UNCHANGED <<wvars, pvars, call, served, last>>

Goes(t, at) == Step(t, [tasks[t] EXCEPT !.at = at], cache_files, <<>>)

Returns(t, ok, data) ==
    Step(t, [tasks[t] EXCEPT !.at = "done", !.ok = ok, !.data = data], cache_files, <<>>)

\* the call begins; alone says that no other task was under way then, and
\* crashed that a task had been cut off before
StartTask(t) ==
    /\ tasks[t].at = "idle"
    /\ \E c \in TaskCalls :
          Step(t, [at |-> "try_exists", op |-> c.op, file_path |-> c.file_path,
                   range |-> c.range, path |-> c.file_path, buf |-> <<>>,
                   ok |-> FALSE, data |-> <<>>, wrote |-> FALSE, sent |-> FALSE,
                   alone |-> \A u \in TaskIds : ~UnderWay(u),
                   crashed |-> \E u \in TaskIds : tasks[u].at = "aborted"],
               cache_files, <<>>)

\* fs::try_exists(file_path).await
TryExists(t) ==
    /\ tasks[t].at = "try_exists"
    /\ IF tasks[t].file_path \in DOMAIN cache_files
       THEN Goes(t, IF tasks[t].op = "read_or_cache" THEN "read" ELSE "read_exact")
       ELSE IF tasks[t].op = "read_or_cache" THEN Goes(t, "send")
       ELSE Step(t, [tasks[t] EXCEPT
                       !.at = "try_exists_segment",
                       !.path = SegmentPath(tasks[t].file_path, tasks[t].range[1],
                                            tasks[t].range[2])],
                 cache_files, <<>>)

\* fs::try_exists(&segment_path).await
TryExistsSegment(t) ==
    /\ tasks[t].at = "try_exists_segment"
    /\ Goes(t, IF tasks[t].path \in DOMAIN cache_files THEN "read" ELSE "send")

\* fs::read(path).await: the bytes the file holds now
ReadFile(t) ==
    /\ tasks[t].at = "read"
    /\ Returns(t, TRUE, cache_files[tasks[t].path])

\* File::open, seek(start), read_exact(end - start)
ReadExact(t) ==
    /\ tasks[t].at = "read_exact"
    /\ LET file == cache_files[tasks[t].file_path]
           start == tasks[t].range[1]
           end == tasks[t].range[2]
       IN  IF BLen(file) < end THEN Returns(t, FALSE, <<>>)
           ELSE Returns(t, TRUE, BSlice(file, start, end))

\* client.get(url)[.header(RANGE, ..)].send().await?.bytes().await?
SendRequest(t) ==
    /\ tasks[t].at = "send"
    /\ \E net \in NetOutcomes :
          LET body == ServerBody(tasks[t].file_path.dir, tasks[t].file_path.key)
              buf == IF tasks[t].range = <<>> THEN body
                     ELSE RangeBody(body, tasks[t].range[1], tasks[t].range[2])
              req == <<Request(tasks[t].file_path, tasks[t].range)>>
          IN  IF net = NetOk
              THEN Step(t, [tasks[t] EXCEPT !.at = "create", !.buf = buf, !.sent = TRUE],
                        cache_files, req)
              ELSE Step(t, [tasks[t] EXCEPT !.at = "done", !.sent = TRUE],
                        cache_files, req)

\* fs::write, first half: File::create makes the file or truncates it
CreateFile(t) ==
    /\ tasks[t].at = "create"
    /\ Step(t, [tasks[t] EXCEPT !.at = "write_all", !.wrote = TRUE],
            WriteFile(cache_files, tasks[t].path, <<>>), <<>>)

\* fs::write, second half: write_all(buf); then Ok(buf.to_vec())
WriteAll(t) ==
    /\ tasks[t].at = "write_all"
    /\ Step(t, [tasks[t] EXCEPT !.at = "done", !.ok = TRUE, !.data = tasks[t].buf],
            WriteFile(cache_files, tasks[t].path, tasks[t].buf), <<>>)

\* the process dies: no task under way goes on
Crash ==
    /\ \E t \in TaskIds : UnderWay(t)
    /\ tasks' = [t \in TaskIds |->
                   IF UnderWay(t) THEN [tasks[t] EXCEPT !.at = "aborted"] ELSE tasks[t]]
    /\ UNCHANGED <<wvars, pvars, call, cache_files, requests, served, last>>

NextTasks ==
    \/ \E t \in TaskIds : StartTask(t)
    \/ \E t \in TaskIds : TryExists(t)
    \/ \E t \in TaskIds : TryExistsSegment(t)
    \/ \E t \in TaskIds : ReadFile(t)
    \/ \E t \in TaskIds : ReadExact(t)
    \/ \E t \in TaskIds : SendRequest(t)
    \/ \E t \in TaskIds : CreateFile(t)
    \/ \E t \in TaskIds : WriteAll(t)
    \/ Crash

SpecTasks == InitTasks /\ [][NextTasks]_vars

(***************************************************************************)
(* Specification of the writer: a caller appends payloads, then finishes;  *)
(* any Err ends the run (write_cdn_files propagates it with `?`).          *)
(***************************************************************************)
MaxAppends == 4

PayloadSizes == {0, 100, 200,
                 MAX_DATA_FILE_SIZE_BYTES - 250,
                 MAX_DATA_FILE_SIZE_BYTES,
                 MAX_DATA_FILE_SIZE_BYTES + 1}

\* how many bytes reach the file when write_all fails
PartialWrites(len) == {0, len \div 2}

InitWriter ==
    /\ writer = NewWriter
    /\ seg_files = (0 :> <<>>)
    /\ index_file = Absent
    /\ wstatus = "open"
    /\ appended = <<>>
    /\ rd = NoRead
    /\ CacheFresh
    /\ PipelineIdle
    /\ call = NoCall

DoAppend(file_id, name_hash, data, io) ==
    LET r == append_entry(writer, seg_files, file_id, name_hash, data, io) IN
    /\ writer' = r.w
    /\ seg_files' = r.files
    /\ wstatus' = IF r.ok THEN "open" ELSE "failed"
    /\ appended' = IF Len(r.w.entries) > Len(writer.entries)
                   THEN Append(appended, data) ELSE appended
    /\ UNCHANGED <<index_file, rd, cvars, pvars, call>>

NextPayload(len) == Blob(<<"payload", Len(appended) + 1>>, len)

AppendEntryOk ==
    /\ wstatus = "open"
    /\ Len(appended) < MaxAppends
    /\ \E len \in PayloadSizes :
          DoAppend(190086 + Len(appended), 7 + Len(appended), NextPayload(len), IoOk)

AppendEntryCreateFails ==
    /\ wstatus = "open"
    /\ Len(appended) < MaxAppends
    /\ \E len \in PayloadSizes :
          /\ NeedsNewFile(writer, NextPayload(len))
          /\ DoAppend(190086 + Len(appended), 7 + Len(appended), NextPayload(len),
                      IoCreateFails)

AppendEntryWriteFails ==
    /\ wstatus = "open"
    /\ Len(appended) < MaxAppends
    /\ \E len \in PayloadSizes \ {0} : \E n \in PartialWrites(len) :
          DoAppend(190086 + Len(appended), 7 + Len(appended), NextPayload(len),
                   IoWriteFails(n))

FinishOk ==
    /\ wstatus = "open"
    /\ index_file' = finish(writer, IoOk).index
    /\ wstatus' = "finished"
    /\ UNCHANGED <<writer, seg_files, appended, rd, cvars, pvars, call>>

FinishFails ==
    /\ wstatus = "open"
    /\ \E io \in {IoCreateFails, IoWriteFails(0), IoWriteFails(4)} :
          /\ index_file' = finish(writer, io).index
          /\ wstatus' = "failed"
    /\ UNCHANGED <<writer, seg_files, appended, rd, cvars, pvars, call>>

\* a consumer opens the finished container and reads one entry of its index
ReadEntry ==
    /\ wstatus = "finished"
    /\ index_file.exists
    /\ LET idx == IndexFromBytes(index_file.bytes) IN
       /\ idx.ok
       /\ \E i \in 1..Len(idx.entries) :
             rd' = [i |-> i, entry |-> idx.entries[i],
                    res |-> get_entry_data(seg_files, idx.entries[i])]
    /\ UNCHANGED <<writer, seg_files, index_file, wstatus, appended, cvars, pvars, call>>

NextWriter ==
    \/ AppendEntryOk
    \/ AppendEntryCreateFails
    \/ AppendEntryWriteFails
    \/ FinishOk
    \/ FinishFails
    \/ ReadEntry

SpecWriter == InitWriter /\ [][NextWriter]_vars

(***************************************************************************)
(* Specification of the repack: one call of write_cdn_files on a fresh     *)
(* writer.  HashMap iteration order is a free choice at every step; an     *)
(* HTTP request or a file write may fail.                                  *)
(***************************************************************************)
CdnLists == {<<CdnRetail>>, <<CdnRetail, CdnClassic>>, <<CdnClassic, CdnRetail>>,
             <<CdnRetail, CdnEncrypted>>}

\* the cache directory is empty, or holds an archive fetched whole earlier
CacheStarts ==
    {<<>>, WriteFile(<<>>, WholePath("data", "a2"), ServerBody("data", "a2"))}

Init ==
    /\ WriterIdle
    /\ cache_files \in CacheStarts
    /\ requests = <<>>
    /\ served = <<>>
    /\ last = [op |-> "none"]
    /\ tasks = NoTasks
    /\ cdns \in CdnLists
    /\ pc = "next_cdn"
    /\ wl = [ci |-> 1, todo |-> {}, archive_to_entries |-> <<>>, groups |-> {},
             all_entries |-> <<>>, all_file_ids |-> {}, work |-> <<>>]
    /\ ret = ""
    /\ skipped = {}
    /\ emitted = <<>>
    /\ decoded = NoDecode
    /\ call = NoCall

\* for cdn in cdns { let mut archive_to_entries = HashMap::new(); ...
BeginCdn ==
    /\ pc = "next_cdn"
    /\ wl.ci <= Len(cdns)
    /\ wl' = [wl EXCEPT !.archive_to_entries = <<>>,
                        !.todo = DOMAIN cdns[wl.ci].root]
    /\ pc' = "resolve"
    /\ UNCHANGED <<wvars, cvars, cdns, call, ret, skipped, emitted, decoded>>

\* one iteration over file_id_to_entry_index, in the order the HashMap yields
ResolveFileId ==
    /\ pc = "resolve"
    /\ \E file_id \in wl.todo :
          LET l == resolve_file_id([all_file_ids |-> wl.all_file_ids,
                                    archive_to_entries |-> wl.archive_to_entries,
                                    skips |-> skipped],
                                   cdns[wl.ci], wl.ci, file_id)
          IN  /\ wl' = [wl EXCEPT !.todo = @ \ {file_id},
                                  !.all_file_ids = l.all_file_ids,
                                  !.archive_to_entries = l.archive_to_entries]
              /\ skipped' = l.skips
    /\ UNCHANGED <<wvars, cvars, cdns, call, pc, ret, emitted, decoded>>

\* archive_to_entries.into_values()
BeginFetch ==
    /\ pc = "resolve"
    /\ wl.todo = {}
    /\ wl' = [wl EXCEPT !.groups = DOMAIN wl.archive_to_entries]
    /\ pc' = "fetch"
    /\ UNCHANGED <<wvars, cvars, cdns, call, ret, skipped, emitted, decoded>>

ArchiveEntryOf(items) == [i \in 1..Len(items) |-> items[i].archive_entry]

\* one archive's group: fetch_archive_entries(...).await?, then extend
FetchGroup ==
    /\ pc = "fetch"
    /\ \E key \in wl.groups :
          LET entries == wl.archive_to_entries[key]
              index_entries == ArchiveEntryOf(entries)
              range == WidenRange(get_byte_range(index_entries[1]), index_entries)
              whole == WholePath("data", key)
          IN  \E net \in NetChoices(SegmentPath(whole, range.start, range.end), whole) :
                 LET r == fetch_archive_entries(cache_files, key, index_entries, net) IN
                 /\ cache_files' = r.files
                 /\ requests' = AddRequests(requests, r.reqs)
                 /\ IF r.ok
                    THEN /\ wl' = [wl EXCEPT !.groups = @ \ {key},
                                             !.all_entries = @ \o entries]
                         /\ UNCHANGED <<pc, ret, wstatus>>
                    ELSE /\ pc' = "returned"
                         /\ ret' = r.err
                         /\ wstatus' = "failed"
                         /\ UNCHANGED wl
    /\ UNCHANGED <<writer, seg_files, index_file, appended, rd, served, last, tasks,
                   cdns, call, skipped, emitted, decoded>>

EndCdn ==
    /\ pc = "fetch"
    /\ wl.groups = {}
    /\ wl' = [wl EXCEPT !.ci = @ + 1]
    /\ pc' = "next_cdn"
    /\ UNCHANGED <<wvars, cvars, cdns, call, ret, skipped, emitted, decoded>>

SortEntries ==
    /\ pc = "next_cdn"
    /\ wl.ci > Len(cdns)
    /\ wl' = [wl EXCEPT !.work = sort_by_file_id(wl.all_entries)]
    /\ pc' = "write"
    /\ UNCHANGED <<wvars, cvars, cdns, call, ret, skipped, emitted, decoded>>

IoChoices == {IoOk, IoWriteFails(0)}

\* one iteration of the loop over the sorted all_entries
WriteEntry ==
    /\ pc = "write"
    /\ wl.work # <<>>
    /\ LET item  == Head(wl.work)
           whole == WholePath("data", item.archive)
           range == get_byte_range(item.archive_entry)
       IN  \E net \in NetChoices(SegmentPath(whole, range.start, range.end), whole) :
           \E io \in IoChoices :
              LET f == fetch_archive_entry(cache_files, item.archive,
                                           item.archive_entry, net)
                  d == IF f.ok THEN decode_blte(f.data) ELSE DecodeErr("")
                  a == IF f.ok /\ d.kind = "ok"
                       THEN append_entry(writer, seg_files, item.file_id,
                                         item.name_hash, d.data, io)
                       ELSE [w |-> writer, files |-> seg_files, ok |-> TRUE]
                  pushed == Len(a.w.entries) > Len(writer.entries)
                  skip == f.ok /\ d.kind = "err" /\ d.err = "UnsupportedEncryptedData"
              IN  /\ cache_files' = f.files
                  /\ requests' = AddRequests(requests, f.reqs)
                  /\ decoded' = IF f.ok
                                THEN [file_id |-> item.file_id, buf |-> f.data, res |-> d]
                                ELSE decoded
                  /\ writer' = a.w
                  /\ seg_files' = a.files
                  /\ appended' = IF pushed THEN Append(appended, d.data) ELSE appended
                  /\ emitted' = IF pushed
                                THEN Append(emitted, [cdn |-> item.cdn,
                                                      file_id |-> item.file_id])
                                ELSE emitted
                  /\ skipped' = IF skip
                                THEN skipped \cup {[cdn |-> item.cdn,
                                                    file_id |-> item.file_id,
                                                    why |-> "encrypted"]}
                                ELSE skipped
                  /\ IF ~f.ok
                     THEN /\ pc' = "returned" /\ ret' = f.err /\ wstatus' = "failed"
                          /\ UNCHANGED wl
                     ELSE IF d.kind = "panic"
                     THEN /\ pc' = "panicked" /\ ret' = d.err /\ wstatus' = "failed"
                          /\ UNCHANGED wl
                     ELSE IF d.kind = "err" /\ ~skip
                     THEN /\ pc' = "returned" /\ ret' = d.err /\ wstatus' = "failed"
                          /\ UNCHANGED wl
                     ELSE IF ~a.ok
                     THEN /\ pc' = "returned" /\ ret' = "IOError" /\ wstatus' = "failed"
                          /\ UNCHANGED wl
                     ELSE /\ wl' = [wl EXCEPT !.work = Tail(@)]
                          /\ UNCHANGED <<pc, ret, wstatus>>
    /\ UNCHANGED <<index_file, rd, served, last, tasks, cdns, call>>

\* self.finish().await
Finish ==
    /\ pc = "write"
    /\ wl.work = <<>>
    /\ \E io \in {IoOk, IoCreateFails, IoWriteFails(0), IoWriteFails(4)} :
          LET r == finish(writer, io) IN
          /\ index_file' = r.index
          /\ pc' = "returned"
          /\ ret' = IF r.ok THEN "ok" ELSE "IOError"
          /\ wstatus' = IF r.ok THEN "finished" ELSE "failed"
    /\ UNCHANGED <<writer, seg_files, appended, rd, cvars, cdns, call, wl,
                   skipped, emitted, decoded>>

Next ==
    \/ BeginCdn
    \/ ResolveFileId
    \/ BeginFetch
    \/ FetchGroup
    \/ EndCdn
    \/ SortEntries
    \/ WriteEntry
    \/ Finish

Spec == Init /\ [][Next]_vars

(***************************************************************************)
(* Specification of the lookups: calls of fetch_file_id and                *)
(* fetch_file_name on one CDNFetcher, one after the other.                 *)
(***************************************************************************)
FetchIds == {10, 20, 30, 40, 50, 60}

FetchPaths == {<<"a", "/", "b">>, <<"A", "\\", "B">>, <<"b", "/", "a">>, <<"a">>,
               <<"B">>, <<"b", "B">>, <<"a", "a">>, <<"a", "/">>}

InitFetch ==
    /\ WriterIdle
    /\ CacheFresh
    /\ cdns = <<CdnNamed>>
    /\ pc = "idle"
    /\ wl = [ci |-> 0]
    /\ ret = ""
    /\ skipped = {}
    /\ emitted = <<>>
    /\ decoded = NoDecode
    /\ call = NoCall

RecordFetch(fn, arg, r) ==
    /\ cache_files' = r.files
    /\ requests' = AddRequests(requests, r.reqs)
    /\ call' = [fn |-> fn, arg |-> arg,
                res |-> [kind |-> r.kind, data |-> r.data, err |-> r.err, arg |-> r.arg],
                reqs |-> r.reqs, before |-> cache_files]
    /\ UNCHANGED <<wvars, pvars, served, last, tasks>>

FetchFileId ==
    /\ RequestsLeft
    /\ \E file_id \in FetchIds : \E net \in NetOutcomes :
          RecordFetch("fetch_file_id", file_id,
                      fetch_file_id(cache_files, cdns[1], file_id, net))

FetchFileName ==
    /\ RequestsLeft
    /\ \E path \in FetchPaths : \E net \in NetOutcomes :
          RecordFetch("fetch_file_name", path,
                      fetch_file_name(cache_files, cdns[1], path, net))

NextFetch ==
    \/ FetchFileId
    \/ FetchFileName

SpecFetch == InitFetch /\ [][NextFetch]_vars

(***************************************************************************)
(* Specification of the parsers and codecs: a run starts with an input for *)
(* one of the crate's pure functions; the step calls the function on it    *)
(* and records the result.                                                 *)
(***************************************************************************)
Input(fn, arg) == [fn |-> "input", for |-> fn, arg |-> arg]

Pending(fn) == call.fn = "input" /\ call.for = fn

Called(fn, res) ==
    /\ call' = [fn |-> fn, arg |-> call.arg, res |-> res]
    /\ UNCHANGED <<wvars, cvars, pvars>>

\* the stand-alone BLTE blobs: name -> length in bytes
BlteBlobLen == [nz |-> 92, x |-> 41, empty |-> 36, badz |-> 45, none |-> 12, junk |-> 40]

\* by how much a buffer handed to decode_blte is longer than its blob
BlteSlack == {0, 1, 0 - 1, 0 - 30}

\* buffers handed to decode_blte: archive entries and stand-alone blobs,
\* whole, with a trailing byte, or cut short
BlteInputs ==
    {<<>>} \cup
    UNION {{BSlice(ServerBody("data", a), e.offset_bytes,
                   e.offset_bytes + e.size_bytes + d) : e \in ArchiveEntries[a]}
           : <<a, d>> \in ArchiveKeys \X BlteSlack} \cup
    {BSlice(Blob(<<"blte", k>>, BlteBlobLen[k]), 0, BlteBlobLen[k] + d)
       : <<k, d>> \in (DOMAIN BlteBlobLen) \X BlteSlack}

ARCHIVE_BLOCK_BYTES == 4096

RECURSIVE RunsLen(_)
RunsLen(runs) == IF runs = <<>> THEN 0 ELSE Head(runs).len + RunsLen(Tail(runs))

\* a 4096-byte block holding the given runs of entries, zero-padded
IndexBlock(runs) == runs \o <<ZeroPiece(ARCHIVE_BLOCK_BYTES - RunsLen(runs))>>

RECURSIVE IndexBlocks(_)
IndexBlocks(layout) ==
    IF layout = <<>> THEN <<>> ELSE IndexBlock(Head(layout)) \o IndexBlocks(Tail(layout))

\* blocks, table of contents, footer
IndexData(layout, footer) ==
    IndexBlocks(layout)
        \o (IF layout = <<>> THEN <<>> ELSE <<TocPiece(ARCHIVE_ENTRY_BYTES * Len(layout))>>)
        \o <<footer>>

\* how the entries lie in the blocks: no block, one block, a repeated key,
\* a full block of 170 entries and a second one, two part-filled blocks, an
\* empty block
IndexLayouts ==
    {<<>>,
     <<<<EntriesPiece(1, 3)>>>>,
     <<<<EntriesPiece(1, 2), EntriesPiece(2, 1)>>>>,
     <<<<EntriesPiece(1, 170)>>, <<EntriesPiece(171, 2)>>>>,
     <<<<EntriesPiece(1, 2)>>, <<EntriesPiece(3, 1)>>>>,
     <<<<>>>>}

FooterCounts == {0, 1, 2, 3, 4, 172}

\* index files: every layout under every footer, and files without footer
IndexInputs ==
    {IndexData(l, FooterPiece(v, 4, n))
        : <<l, v, n>> \in IndexLayouts \X {1, 2} \X FooterCounts}
    \cup {<<>>, <<ZeroPiece(20)>>, IndexBlock(<<EntriesPiece(1, 1)>>)}

ParseArchiveIndex ==
    /\ Pending("ArchiveIndex::parse")
    /\ Called("ArchiveIndex::parse", ArchiveIndex_parse("a1", call.arg))

DecodeBlte ==
    /\ Pending("decode_blte")
    /\ Called("decode_blte", decode_blte(call.arg))

\* delta tables of root blocks, some with sums that reach 2^32
DeltaTables ==
    {<<>>, <<U32Of(0), U32Of(2), U32Of(0)>>, <<U32Of(5)>>, <<U32Of(0), U32Of(0)>>,
     <<U32_MAX>>, <<U32_MAX, U32Of(0)>>, <<U32(32768, 0), U32(32767, 65535)>>}

\* block number b with the given deltas; its entries are told apart by b
RootBlockOf(b, deltas, whole) ==
    RootBlock(deltas, [k \in 1..Len(deltas) |-> RootFileEntry(10 * b + k, 100 * b + k)],
              whole)

\* no block, one block, or two, the second one whole or cut short
RootBlockLists ==
    {<<>>} \cup {<<RootBlockOf(1, d, TRUE)>> : d \in DeltaTables}
    \cup {<<RootBlockOf(1, d[1], TRUE), RootBlockOf(2, d[2], w)>>
             : <<d, w>> \in (DeltaTables \X DeltaTables) \X BOOLEAN}

\* a root that decodes, one that is no BLTE, one with an unknown frame type
RootBltes == {Blob(<<"blte", "nz">>, 92), Blob(<<"blte", "junk">>, 40),
              Blob(<<"blte", "x">>, 41)}

RootInputs == {[blte |-> buf, blocks |-> bl] : <<buf, bl>> \in RootBltes \X RootBlockLists}

ParseRoot ==
    /\ Pending("RootFile::parse")
    /\ \E build \in Builds : Called("RootFile::parse", RootFile_parse(call.arg, build))

\* the key of the crate's test, and keys of one byte among fifteen others
TestKey == <<0, 23, 164, 2, 245, 86, 251, 236, 228, 108, 56, 220, 67, 26, 44, 155>>

KeyByteValues == {0, 9, 16, 164, 255}

KeyInputs ==
    {TestKey} \cup
    {[i \in 1..KEY_BYTES |-> IF i = pab[1] THEN pab[2] ELSE pab[3]]
       : pab \in (1..KEY_BYTES) \X KeyByteValues \X KeyByteValues}

\* two characters of a string: hex of either case, a sign, no hex at all
StrPairs == {<<"0", "0">>, <<"0", "9">>, <<"a", "4">>, <<"A", "4">>, <<"f", "F">>,
             <<"+", "f">>, <<"g", "0">>}

RECURSIVE Flatten(_)
Flatten(ss) == IF ss = <<>> THEN <<>> ELSE Head(ss) \o Flatten(Tail(ss))

\* strings of 32 characters, of 31 and of 33, and the strings to_string gives
StrInputs ==
    LET whole == {Flatten([i \in 1..KEY_BYTES |-> IF i = pab[1] THEN pab[2] ELSE pab[3]])
                    : pab \in (1..KEY_BYTES) \X StrPairs \X StrPairs}
    IN  whole \cup {Tail(s) : s \in whole} \cup {s \o <<"0">> : s \in whole}
        \cup {to_string(key) : key \in KeyInputs}

KeyToString == Pending("Key::to_string") /\ Called("Key::to_string", to_string(call.arg))

KeyFromStr == Pending("Key::from_str") /\ Called("Key::from_str", from_str(call.arg))

\* the paths of up to three characters
PathChars == {"a", "b", "A", "B", "/", "\\"}

PathInputs ==
    {<<>>} \cup {<<c>> : c \in PathChars}
    \cup {<<c[1], c[2]>> : c \in PathChars \X PathChars}
    \cup {<<c[1], c[2], c[3]>> : c \in PathChars \X PathChars \X PathChars}

\* a sheepfile index with the entries of four named files, one name twice
NamedReader ==
    SheepfileReader(<<[file_id |-> 10, name_hash |-> lookup3(<<"B", "\\", "A">>),
                       data_file_index |-> 0, start_bytes |-> 0, size_bytes |-> 5],
                      [file_id |-> 20, name_hash |-> lookup3(<<"A", "\\", "B">>),
                       data_file_index |-> 0, start_bytes |-> 5, size_bytes |-> 7],
                      [file_id |-> 30, name_hash |-> lookup3(<<"A">>),
                       data_file_index |-> 0, start_bytes |-> 12, size_bytes |-> 0],
                      [file_id |-> 40, name_hash |-> lookup3(<<"A", "\\", "B">>),
                       data_file_index |-> 1, start_bytes |-> 0, size_bytes |-> 9]>>)

GetCKeyForFilePath ==
    /\ Pending("RootFile::get_ckey_for_file_path")
    /\ Called("RootFile::get_ckey_for_file_path",
              get_ckey_for_file_path(CdnNamed.root, call.arg))

GetEntryForName ==
    /\ Pending("SheepfileReader::get_entry_for_name")
    /\ Called("SheepfileReader::get_entry_for_name",
              get_entry_for_name(NamedReader, call.arg))

\* values of one to five groups
VlqValues ==
    {U32Of(n) : n \in {0, 1, 3, 127, 128, 129, 255, 300, 16383, 16384, 2097151, 2097152}}
    \cup {U32(4096, 0), U32(32768, 0), U32(65535, 65535 - 127), U32_MAX}

\* the bytes of the crate's test, the strings of up to two bytes, and
\* strings of five and six groups
VlqByteValues == {0, 1, 3, 127, 128, 129, 255}

VlqBytes ==
    {<<255, 127, 3>>, <<>>, <<255, 255, 255, 255, 127>>, <<129, 128, 128, 128, 0>>,
     <<255, 255, 255, 255, 255, 127>>, <<128, 128, 1>>}
    \cup {<<b>> : b \in VlqByteValues}
    \cup {<<b[1], b[2]>> : b \in VlqByteValues \X VlqByteValues}

VlqWrite == Pending("vlq_write") /\ Called("vlq_write", vlq_write(call.arg, <<>>))

VlqRead == Pending("vlq_read") /\ Called("vlq_read", vlq_read(call.arg))

\* the input of the run: an argument for one of the functions
CodecInputs ==
    \/ \E buf \in BlteInputs : call = Input("decode_blte", buf)
    \/ \E data \in IndexInputs : call = Input("ArchiveIndex::parse", data)
    \/ \E data \in RootInputs : call = Input("RootFile::parse", data)
    \/ \E key \in KeyInputs : call = Input("Key::to_string", key)
    \/ \E s \in StrInputs : call = Input("Key::from_str", s)
    \/ \E value \in VlqValues : call = Input("vlq_write", value)
    \/ \E rest \in VlqBytes : call = Input("vlq_read", rest)
    \/ \E name \in PathInputs : call = Input("RootFile::get_ckey_for_file_path", name)
    \/ \E name \in PathInputs : call = Input("SheepfileReader::get_entry_for_name", name)

InitCodec == WriterIdle /\ CacheFresh /\ PipelineIdle /\ CodecInputs

NextCodec ==
    \/ DecodeBlte
    \/ ParseArchiveIndex
    \/ ParseRoot
    \/ KeyToString
    \/ KeyFromStr
    \/ VlqWrite
    \/ VlqRead
    \/ GetCKeyForFilePath
    \/ GetEntryForName

SpecCodec == InitCodec /\ [][NextCodec]_vars

(***************************************************************************)
(* Properties of the writer and reader (checked under SpecWriter).         *)
(***************************************************************************)

\* C1: repack round trip.  Reading an entry of the index written by finish
\* (open data{data_file_index}.baa, seek to start_bytes, read size_bytes)
\* returns exactly the payload that append_entry was given for that entry.
C1_RoundTrip ==
    rd.i # 0 => /\ rd.res.ok
                   /\ rd.res.data = appended[rd.i]

\* an entry that sits behind another one in a later segment has been read
C1_Witness ==
    /\ rd.i # 0
    /\ rd.entry.data_file_index >= 1
    /\ rd.entry.start_bytes > 0
    /\ rd.entry.size_bytes > 0
    /\ rd.res.ok

SegmentsWithinCap ==
    \A n \in DOMAIN seg_files : BLen(seg_files[n]) <= MAX_DATA_FILE_SIZE_BYTES

\* C2 as stated: after any appends, with payloads of any size, every
\* segment file holds at most MAX_DATA_FILE_SIZE_BYTES bytes.
C2_AnyPayload == SegmentsWithinCap

\* C2 amended: when every payload appended so far is at most
\* MAX_DATA_FILE_SIZE_BYTES long, every segment file holds at most
\* MAX_DATA_FILE_SIZE_BYTES bytes.
C2_PayloadsWithinCap ==
    (\A i \in 1..Len(appended) : BLen(appended[i]) <= MAX_DATA_FILE_SIZE_BYTES)
        => SegmentsWithinCap

\* a full segment next to a second, non-empty one
C2_Witness ==
    /\ \A i \in 1..Len(appended) : BLen(appended[i]) <= MAX_DATA_FILE_SIZE_BYTES
    /\ \E n \in DOMAIN seg_files : BLen(seg_files[n]) = MAX_DATA_FILE_SIZE_BYTES
    /\ \E n \in DOMAIN seg_files : n >= 1 /\ BLen(seg_files[n]) > 0

\* C3: two entries recorded for the same segment have disjoint byte ranges,
\* and the one with the smaller start_bytes was appended earlier.
C3_DisjointOrdered ==
    \A i, j \in 1..Len(writer.entries) :
        LET a == writer.entries[i]
            b == writer.entries[j]
        IN  (i # j /\ a.data_file_index = b.data_file_index) =>
              /\ \/ a.start_bytes + a.size_bytes <= b.start_bytes
                 \/ b.start_bytes + b.size_bytes <= a.start_bytes
              /\ a.start_bytes < b.start_bytes => i < j

\* three non-empty entries, two of them in a segment opened by a rollover
C3_Witness ==
    \E i, j \in 1..Len(writer.entries) :
        /\ i < j
        /\ writer.entries[i].data_file_index = 1
        /\ writer.entries[j].data_file_index = 1
        /\ writer.entries[i].size_bytes > 0
        /\ writer.entries[j].size_bytes > 0

\* a step of append_entry that recorded an entry
EntryPushed == Len(writer'.entries) = Len(writer.entries) + 1

\* the bytes of the current segment before the step
CurrentSegment == seg_files[writer.current_data_index]

\* C19: append_entry opens the next segment exactly when the size of the
\* current segment plus the length of the payload is above
\* MAX_DATA_FILE_SIZE_BYTES, and otherwise appends at the end of the current
\* segment; the payload lies whole in one segment; a payload of exactly
\* MAX_DATA_FILE_SIZE_BYTES opens a new segment if and only if the current
\* segment is not empty.
C19_AppendPolicy ==
    [][EntryPushed =>
         LET e == writer'.entries[Len(writer'.entries)]
             data == appended'[Len(appended')]
             opened == writer'.current_data_index = writer.current_data_index + 1
         IN  /\ opened \/ writer'.current_data_index = writer.current_data_index
             /\ opened <=> BLen(CurrentSegment) + BLen(data) > MAX_DATA_FILE_SIZE_BYTES
             /\ e.data_file_index = writer'.current_data_index
             /\ e.start_bytes = IF opened THEN 0 ELSE BLen(CurrentSegment)
             /\ \A n \in DOMAIN seg_files : n # e.data_file_index => seg_files'[n] = seg_files[n]
             /\ wstatus' = "open" =>
                   /\ seg_files'[e.data_file_index] =
                         BCat(IF opened THEN <<>> ELSE CurrentSegment, data)
                   /\ get_entry_data(seg_files', e) = [ok |-> TRUE, data |-> data]
             /\ BLen(data) = MAX_DATA_FILE_SIZE_BYTES =>
                   (opened <=> BLen(CurrentSegment) > 0)
    ]_vars

\* a payload of exactly the cap stayed in the empty first segment, and
\* another one opened a segment of its own behind a non-empty one
C19_Witness ==
    /\ wstatus = "open"
    /\ Len(writer.entries) >= 3
    /\ writer.entries[1].size_bytes = MAX_DATA_FILE_SIZE_BYTES
    /\ writer.entries[1].data_file_index = 0
    /\ \E i \in 2..Len(writer.entries) :
          /\ writer.entries[i].size_bytes = MAX_DATA_FILE_SIZE_BYTES
          /\ writer.entries[i].start_bytes = 0
          /\ writer.entries[i - 1].size_bytes > 0
          /\ writer.entries[i].data_file_index = writer.entries[i - 1].data_file_index + 1

\* C29: a call of append_entry that returns an error leaves the writer as
\* it was: no entry is added, current_data_index and
\* current_data_file_size are unchanged and describe the segment on disk,
\* and every entry recorded reads back from the segment files.
C29_FailedAppendUnchanged ==
    [][(wstatus = "open" /\ wstatus' = "failed") =>
          /\ writer' = writer
          /\ BLen(seg_files'[writer'.current_data_file]) = writer'.current_data_file_size
          /\ \A i \in 1..Len(writer'.entries) :
                get_entry_data(seg_files', writer'.entries[i]).ok
    ]_vars

(***************************************************************************)
(* Properties of the cache (checked under SpecCache).                      *)
(***************************************************************************)
WholeOps == {"fetch_data", "fetch_archive"}
RangeOps == {"fetch_archive_entry", "fetch_archive_entries"}

\* C7: a whole-file fetch returns the cached file without an HTTP request
\* when the file exists; otherwise it sends exactly one GET and, when that
\* succeeds, writes the body to the path and returns it.  After a successful
\* fetch of a key every later fetch of it returns the same bytes, with no
\* HTTP request.
C7_FetchWhole ==
    last.op \in WholeOps =>
      /\ last.path \in DOMAIN last.before =>
            /\ last.ok
            /\ last.data = last.before[last.path]
            /\ last.nreq = 0
      /\ last.path \notin DOMAIN last.before =>
            /\ last.reqs = <<Request(last.path, <<>>)>>
            /\ last.ok =>
                 /\ last.data = ServerBody(last.path.dir, last.path.key)
                 /\ last.path \in DOMAIN last.after
                 /\ last.after[last.path] = last.data
      /\ last.earlier # <<>> =>
            /\ last.ok
            /\ last.data = last.earlier[1]
            /\ last.nreq = 0

\* a config object fetched earlier is served again, from the cache
C7_Witness ==
    /\ last.op = "fetch_data"
    /\ last.earlier # <<>>
    /\ last.ok
    /\ last.nreq = 0
    /\ last.data = last.earlier[1]
    /\ RequestCount >= 1

\* C8: fetch_archive_entry over [start, end) returns the archive's bytes
\* start..end, end-start of them, whether they come from the whole-file
\* cache entry, from a sidecar segment file or from an HTTP Range request.
C8_SameBytes ==
    (last.op = "fetch_archive_entry" /\ last.ok) =>
        LET e == last.args[1] IN
        last.data = BSlice(ServerBody("data", last.path.key),
                           e.offset_bytes, e.offset_bytes + e.size_bytes)

MinOf(S) == CHOOSE x \in S : \A y \in S : x <= y
MaxOf(S) == CHOOSE x \in S : \A y \in S : x >= y

\* C9: fetch_archive_entries sends at most one request, for the range from
\* the least offset to the greatest offset+size of the entries, and returns
\* that least offset with a buffer in which every entry's bytes sit at
\* offset - least offset; an entry covering the whole archive gives
\* (0, the whole archive).
C9_Coalesced ==
    last.op = "fetch_archive_entries" =>
        LET entries == last.args
            es == {entries[i] : i \in 1..Len(entries)}
            lo == MinOf({e.offset_bytes : e \in es})
            hi == MaxOf({e.offset_bytes + e.size_bytes : e \in es})
            whole == WholePath("data", last.path.key)
            archive == ServerBody("data", last.path.key)
        IN  /\ last.nreq <= 1
            /\ last.nreq = 1 => last.reqs[1] = Request(whole, <<lo, hi>>)
            /\ last.ok =>
                 /\ last.data[1] = lo
                 /\ \A e \in es :
                       BSlice(last.data[2], e.offset_bytes - lo,
                              e.offset_bytes - lo + e.size_bytes)
                         = BSlice(archive, e.offset_bytes,
                                  e.offset_bytes + e.size_bytes)
                 /\ (Len(entries) = 1 /\ lo = 0 /\ hi = BLen(archive)) =>
                       last.data = <<0, archive>>

\* entries handed over out of offset order, fetched by one Range request
C9_Witness ==
    /\ last.op = "fetch_archive_entries"
    /\ last.ok
    /\ last.nreq = 1
    /\ Len(last.args) >= 2
    /\ last.args[1].offset_bytes > last.args[2].offset_bytes

\* C10: when the HTTP request of a miss fails, the call returns
\* HTTPRequestError, one request has been sent, and the cache directory is
\* as it was before the call.
C10_HttpFailure ==
    (last.op \in WholeOps \cup RangeOps /\ last.hit = "miss" /\ last.net # NetOk) =>
        /\ ~last.ok
        /\ last.err = "HTTPRequestError"
        /\ last.nreq = 1
        /\ last.after = last.before

\* a range request fails while the cache already holds other files
C10_Witness ==
    /\ last.op \in RangeOps
    /\ last.err = "HTTPRequestError"
    /\ last.before # <<>>
    /\ RequestCount >= 2

(***************************************************************************)
(* Properties of the repack (checked under Spec).                          *)
(***************************************************************************)
ReturnedOk == pc = "returned" /\ ret = "ok"

\* (data_file_index, start_bytes) of a is not after that of b
NotAfter(a, b) ==
    \/ a.data_file_index < b.data_file_index
    \/ a.data_file_index = b.data_file_index /\ a.start_bytes <= b.start_bytes

\* C4: when write_cdn_files returns Ok, index.shp lists the entries in the
\* order their payloads were appended (entry i is the i-th append, holds the
\* i-th payload, and lies before the later ones in the segments), and the
\* file ids do not decrease from first entry to last.
C4_IndexOrder ==
    ReturnedOk =>
        LET idx == IndexFromBytes(index_file.bytes) IN
        /\ index_file.exists /\ idx.ok
        /\ Len(idx.entries) = Len(emitted)
        /\ Len(idx.entries) = Len(appended)
        /\ \A i \in 1..Len(idx.entries) :
              /\ idx.entries[i].file_id = emitted[i].file_id
              /\ get_entry_data(seg_files, idx.entries[i]) =
                    [ok |-> TRUE, data |-> appended[i]]
        /\ \A i, j \in 1..Len(idx.entries) :
              i < j => /\ idx.entries[i].file_id <= idx.entries[j].file_id
                       /\ NotAfter(idx.entries[i], idx.entries[j])

\* a finished repack of two sources whose work list was collected out of order
C4_Witness ==
    /\ ReturnedOk
    /\ Len(cdns) = 2
    /\ Len(emitted) >= 3
    /\ \E i, j \in 1..Len(wl.all_entries) :
          i < j /\ wl.all_entries[i].file_id > wl.all_entries[j].file_id
    /\ IndexFromBytes(index_file.bytes).entries[1].file_id = 10

EmittedBy(ci, file_id) ==
    \E k \in 1..Len(emitted) : emitted[k] = [cdn |-> ci, file_id |-> file_id]

SkippedAs(ci, file_id, reasons) ==
    \E s \in skipped : s.cdn = ci /\ s.file_id = file_id /\ s.why \in reasons

\* the source can name an archive position for the id
Resolvable(cdn, file_id) ==
    /\ cdn.root[file_id].ckey \in DOMAIN cdn.encoding
    /\ \E n \in 1..Len(cdn.archive_index) :
       \E e \in cdn.archive_index[n].entries :
          e.ekey = cdn.encoding[cdn.root[file_id].ckey]

\* C5: when write_cdn_files returns Ok, an id of a source was passed over as
\* already seen exactly if an earlier source emitted it; an id that no
\* earlier source emitted was processed from this source: emitted from it if
\* it resolves, passed over as unresolvable otherwise.
C5_FirstWriteWins ==
    ReturnedOk =>
        \A j \in 1..Len(cdns) : \A f \in DOMAIN cdns[j].root :
            LET earlier == \E i \in 1..(j - 1) : EmittedBy(i, f) IN
            /\ SkippedAs(j, f, {"seen"}) <=> earlier
            /\ earlier => ~EmittedBy(j, f)
            /\ ~earlier => IF Resolvable(cdns[j], f)
                           THEN EmittedBy(j, f)
                           ELSE SkippedAs(j, f, {"no ekey", "no archive entry"})

\* a finished repack where the second source lost id 10 to the first and
\* supplied id 30, which the first source listed but could not resolve
C5_Witness ==
    /\ ReturnedOk
    /\ Len(cdns) = 2
    /\ SkippedAs(2, 10, {"seen"}) /\ EmittedBy(1, 10)
    /\ SkippedAs(1, 30, {"no ekey"}) /\ EmittedBy(2, 30)

RECURSIVE ChunkStart(_, _)
ChunkStart(h, k) ==
    IF k = 1 THEN h.data_offset ELSE ChunkStart(h, k - 1) + h.chunks[k - 1].compressed_size

\* buf is a BLTE stream one of whose chunks has frame type 'E'
HasEncryptedChunk(buf) ==
    /\ buf # <<>>
    /\ Locate(buf, 0) \in DOMAIN BlteHeaders
    /\ LET at == Locate(buf, 0)
           h  == BlteHeaders[at]
       IN  \E k \in 1..Len(h.chunks) :
              LET c == Loc(at.src, at.off + ChunkStart(h, k)) IN
              c \in DOMAIN FrameTypes /\ FrameTypes[c] = "E"

\* C6: decode_blte on a stream with an 'E' chunk returns
\* UnsupportedEncryptedData, and write_cdn_files passes the entry over (no
\* index entry, no bytes appended) and goes on with the remaining entries.
C6_EncryptedSkipped ==
    (decoded.file_id # 0 /\ HasEncryptedChunk(decoded.buf)) =>
        /\ decoded.res = DecodeErr("UnsupportedEncryptedData")
        /\ \E ci \in 1..Len(cdns) : SkippedAs(ci, decoded.file_id, {"encrypted"})
        /\ ~(\E k \in 1..Len(writer.entries) :
                writer.entries[k].file_id = decoded.file_id)
        /\ pc # "panicked"

\* C21 as stated: index.shp exists only once write_cdn_files has appended every
\* payload and finish has written it: every entry index.shp lists reads
\* back whole from its segment file, and a call that returns an error leaves
\* no index.shp behind.
C21_IndexLast ==
    index_file.exists =>
        /\ ReturnedOk
        /\ LET idx == IndexFromBytes(index_file.bytes) IN
           /\ idx.ok
           /\ \A i \in 1..Len(idx.entries) :
                 get_entry_data(seg_files, idx.entries[i]) =
                     [ok |-> TRUE, data |-> appended[i]]

\* every entry of the index in index.shp reads back the payload appended for it
IndexedEntriesPresent ==
    LET idx == IndexFromBytes(index_file.bytes) IN
    /\ idx.ok
    /\ \A i \in 1..Len(idx.entries) :
          get_entry_data(seg_files, idx.entries[i]) = [ok |-> TRUE, data |-> appended[i]]

\* what finish sets out to write
FullIndex == IndexToBytes([num_entries |-> AsU32(Len(writer.entries)),
                           entries |-> writer.entries])

\* C21 amended: index.shp exists only once every source has been merged
\* and every payload appended (an error before finish leaves no index.shp).
\* When write_cdn_files returns Ok every entry index.shp lists reads back
\* whole from its segment file; when finish itself fails after creating the
\* file, index.shp holds a prefix of the index, possibly nothing.
C21_IndexAfterAppends ==
    index_file.exists =>
        /\ pc = "returned" /\ wl.ci > Len(cdns) /\ wl.work = <<>>
        /\ Len(appended) = Len(writer.entries)
        /\ ret \in {"ok", "IOError"}
        /\ ret = "ok" => index_file.bytes = FullIndex /\ IndexedEntriesPresent
        /\ ret = "IOError" =>
              /\ Len(index_file.bytes) <= Len(FullIndex)
              /\ index_file.bytes = SubSeq(FullIndex, 1, Len(index_file.bytes))

\* an index of two or more entries was written after a segment file held
\* their payloads
C21_Witness ==
    /\ index_file.exists
    /\ ret = "ok"
    /\ IndexedEntriesPresent
    /\ Len(IndexFromBytes(index_file.bytes).entries) >= 2
    /\ BLen(seg_files[0]) > 0

Misses == {"no ekey", "no archive entry"}

\* the resolve loop over the root of source j has run to its end
ResolvedSource(j) == j < wl.ci \/ (j = wl.ci /\ pc = "fetch")

\* the id waits, for source j, in the source's groups or in all_entries
Queued(j, f) ==
    \/ /\ j = wl.ci
       /\ \E key \in DOMAIN wl.archive_to_entries :
          \E k \in 1..Len(wl.archive_to_entries[key]) :
             LET item == wl.archive_to_entries[key][k] IN item.cdn = j /\ item.file_id = f
    \/ \E k \in 1..Len(wl.all_entries) :
          wl.all_entries[k].cdn = j /\ wl.all_entries[k].file_id = f

\* C22: in write_cdn_files an id whose CKey has no EKey, or whose EKey is in
\* no archive index, is passed over once and never written from that
\* source; every id of the source that does resolve (and that no earlier
\* source supplied) is still queued and, when the call returns Ok, written;
\* the call never returns a resolution error.
C22_MissSkipped ==
    /\ ret \notin {"MissingCKey", "MissingFileId", "MissingFileName"}
    /\ \A s \in skipped : s.why \in Misses =>
          /\ ~Resolvable(cdns[s.cdn], s.file_id)
          /\ ~EmittedBy(s.cdn, s.file_id) /\ ~Queued(s.cdn, s.file_id)
    /\ \A j \in 1..Len(cdns) : ResolvedSource(j) =>
          \A f \in DOMAIN cdns[j].root :
              IF Resolvable(cdns[j], f)
              THEN Queued(j, f) \/ SkippedAs(j, f, {"seen"})
              ELSE SkippedAs(j, f, Misses) \/ SkippedAs(j, f, {"seen"})
    /\ ReturnedOk =>
          \A j \in 1..Len(cdns) : \A f \in DOMAIN cdns[j].root :
              Queued(j, f) => EmittedBy(j, f)

\* a repack returned Ok after it had passed over an id without EKey and
\* written two other ids of the same source
C22_Witness ==
    /\ ReturnedOk
    /\ SkippedAs(1, 30, {"no ekey"})
    /\ EmittedBy(1, 10) /\ EmittedBy(1, 20)
    /\ index_file.exists

\* the ids of all sources
AllFileIds == UNION {DOMAIN cdns[j].root : j \in 1..Len(cdns)}

\* the first source, in merge order, that resolves the id (0: none does)
FirstSource(f) ==
    LET S == {j \in 1..Len(cdns) : f \in DOMAIN cdns[j].root /\ Resolvable(cdns[j], f)}
    IN  IF S = {} THEN 0 ELSE CHOOSE j \in S : \A i \in S : j <= i

\* the bytes the CDN holds for the id in that source, decoded
PayloadOf(j, f) ==
    LET root_entry == cdns[j].root[f]
        found == find_archive_entry(cdns[j].archive_index,
                                    cdns[j].encoding[root_entry.ckey])[1]
        e == found.archive_entry
    IN  decode_blte(BSlice(ServerBody("data", found.archive), e.offset_bytes,
                           e.offset_bytes + e.size_bytes)).data

\* the container that holds, by ascending id, what the first resolving
\* source has for every id not below f
RECURSIVE Repacked(_, _)
Repacked(ids, r) ==
    IF ids = {} THEN r
    ELSE LET f == CHOOSE x \in ids : \A y \in ids : x <= y
             j == FirstSource(f)
         IN  IF j = 0 THEN Repacked(ids \ {f}, r)
             ELSE Repacked(ids \ {f},
                           append_entry(r.w, r.files, f, cdns[j].root[f].name_hash,
                                        PayloadOf(j, f), IoOk))

\* C23: for a given list of sources and given CDN contents every run of
\* write_cdn_files that returns Ok leaves the same index entries in the same
\* order and the same segment contents (those of the merge by ascending id,
\* first source first), whatever order the root map and the archive groups
\* were iterated in and whatever the cache held.
C23_Deterministic ==
    ReturnedOk =>
        LET r == Repacked(AllFileIds, [w |-> NewWriter, files |-> (0 :> <<>>), ok |-> TRUE])
        IN  /\ writer.entries = r.w.entries
            /\ seg_files = r.files
            /\ index_file.bytes = IndexToBytes([num_entries |-> AsU32(Len(r.w.entries)),
                                                entries |-> r.w.entries])

\* a repack of two sources returned Ok although the ids had not been
\* collected in ascending order
C23_Witness ==
    /\ ReturnedOk
    /\ Len(cdns) = 2
    /\ Len(writer.entries) >= 3
    /\ \E k \in 1..(Len(wl.all_entries) - 1) :
          wl.all_entries[k].file_id > wl.all_entries[k + 1].file_id

\* C30: no file id is recorded twice by write_cdn_files, however many
\* sources are merged, and the file id map SheepfileReader::parse builds
\* from the index.shp of a finished repack has one key for every entry of
\* the index, each leading to its own entry.
C30_UniqueFileIds ==
    /\ \A i, j \in 1..Len(writer.entries) :
          writer.entries[i].file_id = writer.entries[j].file_id => i = j
    /\ ReturnedOk =>
          LET idx == IndexFromBytes(index_file.bytes)
              reader == SheepfileReader(idx.entries)
          IN  /\ idx.ok
              /\ Cardinality(DOMAIN reader.file_ids_to_entry_index) = Len(idx.entries)
              /\ \A i \in 1..Len(idx.entries) :
                    reader.file_ids_to_entry_index[idx.entries[i].file_id] = i

\* the index of a repack of two sources that both list id 10 has been
\* opened: three entries, three ids
C30_Witness ==
    /\ ReturnedOk
    /\ Len(cdns) = 2
    /\ \A j \in 1..2 : 10 \in DOMAIN cdns[j].root
    /\ Cardinality(DOMAIN SheepfileReader(IndexFromBytes(index_file.bytes).entries)
                              .file_ids_to_entry_index) >= 3

\* the HTTP requests with a Range header sent for an archive so far
RangeRequests(key) ==
    SumOver(requests, {q \in DOMAIN requests : q.key = key /\ q.range # <<>>})

\* the repack began with an empty cache directory: it stores files of
\* ranges only, so no whole archive is there
StartedEmpty == \A path \in DOMAIN cache_files : path.seg # <<>>

\* C20: in a repack that starts from an empty cache at most one HTTP range
\* request is sent per archive, and once the coalesced fetches are done
\* exactly one has been sent for every archive that has an entry to write:
\* the fetches of the single entries send none.
C20_OneRequestPerArchive ==
    StartedEmpty =>
        /\ \A key \in ArchiveKeys : RangeRequests(key) <= 1
        /\ pc = "write" =>
              \A k \in 1..Len(wl.all_entries) :
                  RangeRequests(wl.all_entries[k].archive) = 1

(***************************************************************************)
(* Properties of concurrent fetches (checked under SpecTasks).             *)
(***************************************************************************)
Began(t) == tasks[t].at # "idle"

\* C24: whatever the interleaving of the fetches, fs::write is called at
\* most once for a cache file: no two tasks create or truncate the same
\* path.
C24_WrittenOnce ==
    \A t, u \in TaskIds :
        (t # u /\ Began(t) /\ Began(u) /\ tasks[t].wrote /\ tasks[u].wrote)
            => tasks[t].path # tasks[u].path

\* what the server holds for the object or the range [start, end) of a call
Wanted(t) ==
    LET body == ServerBody(tasks[t].file_path.dir, tasks[t].file_path.key) IN
    IF tasks[t].range = <<>> THEN body
    ELSE BSlice(body, tasks[t].range[1], tasks[t].range[2])

\* C25: a task that returns Ok returns the complete bytes of its object or
\* range, whatever other tasks do to the same cache meanwhile.
C25_CompleteBytes ==
    \A t \in TaskIds :
        (Began(t) /\ tasks[t].at = "done" /\ tasks[t].ok) => tasks[t].data = Wanted(t)

\* C26: after a crash, a range fetch that begins when no other task is under
\* way and returns Ok returns the bytes the server sends for the range.
C26_AbortSafe ==
    \A t \in TaskIds :
        (/\ Began(t) /\ tasks[t].op = "read_or_cache_segment"
         /\ tasks[t].crashed /\ tasks[t].alone
         /\ tasks[t].at = "done" /\ tasks[t].ok)
            => tasks[t].data =
                 RangeBody(ServerBody(tasks[t].file_path.dir, tasks[t].file_path.key),
                           tasks[t].range[1], tasks[t].range[2])

(***************************************************************************)
(* Properties of the lookups (checked under SpecFetch).                    *)
(***************************************************************************)
IsFetch == call.fn \in {"fetch_file_id", "fetch_file_name"}

\* the root entry the call's argument names, if any
NamedEntries ==
    LET root == cdns[1].root IN
    IF call.fn = "fetch_file_id"
    THEN {root[f] : f \in {g \in DOMAIN root : g = call.arg}}
    ELSE {root[f] : f \in {g \in DOMAIN root :
                              root[g].name_hash = lookup3(normalized(call.arg))}}

\* the CKey has an EKey, and some archive index lists that EKey
InSomeArchive(cdn, ckey) ==
    /\ ckey \in DOMAIN cdn.encoding
    /\ \E n \in 1..Len(cdn.archive_index) :
       \E e \in cdn.archive_index[n].entries : e.ekey = cdn.encoding[ckey]

MissingErrors == {"MissingFileId", "MissingFileName", "MissingCKey"}

\* C11: fetch_file_id returns MissingFileId(id) exactly when the id is not in
\* the root; fetch_file_name returns MissingFileName(path) exactly when the
\* hash of the normalized path is not in the root; either returns MissingCKey
\* exactly when the entry is found but its CKey has no EKey or the EKey is in
\* no archive index; in these cases no request is sent and the cache is left
\* as it was.
C11_TypedMisses ==
    IsFetch =>
        LET res == call.res
            own == IF call.fn = "fetch_file_id" THEN "MissingFileId"
                   ELSE "MissingFileName"
        IN  /\ (res.kind = "err" /\ res.err = own /\ res.arg = <<call.arg>>)
                  <=> NamedEntries = {}
            /\ (res.kind = "err" /\ res.err = "MissingCKey")
                  <=> \E e \in NamedEntries : ~InSomeArchive(cdns[1], e.ckey)
            /\ (res.kind = "err" /\ res.err \in MissingErrors) =>
                  /\ call.reqs = <<>>
                  /\ cache_files = call.before
                  /\ res.err \in {own, "MissingCKey"}

\* a lookup by path that ends in MissingCKey while the cache holds a segment
C11_Witness ==
    /\ call.fn = "fetch_file_name"
    /\ call.res.kind = "err" /\ call.res.err = "MissingCKey"
    /\ call.arg = <<"B">>
    /\ cache_files # <<>>

(***************************************************************************)
(* Properties of the parsers and codecs (checked under SpecCodec).         *)
(***************************************************************************)
\* the header of buf, its chunks' places, and the tag byte of chunk k
HeaderOf(buf) == BlteHeaders[Locate(buf, 0)]

TagOf(buf, k) ==
    LET at == Locate(buf, 0)
        c  == Loc(at.src, at.off + ChunkStart(HeaderOf(buf), k))
    IN  IF c \in DOMAIN FrameTypes THEN FrameTypes[c] ELSE "?"

\* the body of chunk k: the bytes after its tag, up to compressed_size
BodyOf(buf, k) ==
    LET h == HeaderOf(buf) IN
    BSlice(buf, ChunkStart(h, k) + 1, ChunkStart(h, k) + h.chunks[k].compressed_size)

\* buf holds a BLTE header and every chunk it describes, each with a tag byte
WellFormedBlte(buf) ==
    /\ BLen(buf) >= BLTE_HEADER_BYTES
    /\ Locate(buf, 0) \in DOMAIN BlteHeaders
    /\ LET h == HeaderOf(buf) IN
       /\ BLen(buf) >= BLTE_HEADER_BYTES + BLTE_CHUNK_BYTES * Len(h.chunks)
       /\ \A k \in 1..Len(h.chunks) :
             /\ h.chunks[k].compressed_size >= 1
             /\ ChunkStart(h, k) + h.chunks[k].compressed_size <= BLen(buf)

DecodedBody(buf, k) ==
    IF TagOf(buf, k) = "N" THEN BodyOf(buf, k)
    ELSE Blob(<<"inflated", BodyOf(buf, k)[1].src, BodyOf(buf, k)[1].off>>,
              ZlibStreams[BodyOf(buf, k)])

RECURSIVE BodiesUpTo(_, _)
BodiesUpTo(buf, k) ==
    IF k = 0 THEN <<>> ELSE BCat(BodiesUpTo(buf, k - 1), DecodedBody(buf, k))

\* C12: for a buffer whose chunks are all 'N' or valid 'Z' chunks, decode_blte
\* returns the chunks' decoded bodies concatenated in descriptor order; chunk
\* k starts at data_offset plus the earlier compressed sizes, its first byte
\* is the tag, and an 'N' body is passed through unchanged.
C12_DecodeConcat ==
    (/\ call.fn = "decode_blte"
     /\ WellFormedBlte(call.arg)
     /\ \A k \in 1..Len(HeaderOf(call.arg).chunks) :
           \/ TagOf(call.arg, k) = "N"
           \/ TagOf(call.arg, k) = "Z" /\ BodyOf(call.arg, k) \in DOMAIN ZlibStreams)
    => call.res = DecodeOk(BodiesUpTo(call.arg, Len(HeaderOf(call.arg).chunks)))

\* the two-chunk blob ('N' then 'Z') decoded: the bodies without their tags
C12_Witness ==
    /\ call.fn = "decode_blte"
    /\ call.arg = Blob(<<"blte", "nz">>, 92)
    /\ call.res.kind = "ok"
    /\ call.res.data = <<Run(<<"blte", "nz">>, 61, 10), Run(<<"inflated", <<"blte", "nz">>, 72>>, 0, 64)>>

\* C13: decode_blte never panics; an unknown frame tag, a chunk of
\* compressed_size 0 and a chunk reaching past the end of the buffer all
\* give an error value.
C13_NeverPanics ==
    call.fn = "decode_blte" => call.res.kind \in {"ok", "err"}

\* the footer at the end of an index file
FooterOf(data) == data[Len(data)]

\* C14: every successful ArchiveIndex::parse yields exactly footer.num_files
\* entries, and NULL_EKEY is not a key of the map.
C14_EntryCount ==
    (call.fn = "ArchiveIndex::parse" /\ call.res.kind = "ok") =>
        /\ Cardinality(call.res.entries) = FooterOf(call.arg).num_files
        /\ \A e \in call.res.entries : e.ekey # NULL_EKEY

\* the blocks RootFile::parse reads: those before the first one cut short
RECURSIVE WholeBlocks(_)
WholeBlocks(blocks) ==
    IF blocks = <<>> \/ ~Head(blocks).whole THEN <<>>
    ELSE <<Head(blocks)>> \o WholeBlocks(Tail(blocks))

RECURSIVE SumHalves(_, _)
SumHalves(deltas, k) ==
    IF k = 0 THEN [hi |-> 0, lo |-> 0]
    ELSE [hi |-> SumHalves(deltas, k - 1).hi + deltas[k].hi,
          lo |-> SumHalves(deltas, k - 1).lo + deltas[k].lo]

\* the k-th id of a block: delta_1 + .. + delta_k + (k - 1), within 32 bits
GapId(deltas, k) ==
    LET s  == SumHalves(deltas, k)
        lo == s.lo + (k - 1)
    IN  U32((s.hi + lo \div 65536) % 65536, lo % 65536)

RECURSIVE EntriesBefore(_, _)
EntriesBefore(blocks, b) ==
    IF b = 1 THEN 0 ELSE EntriesBefore(blocks, b - 1) + Len(blocks[b - 1].file_entries)

\* the (block, position) pairs of the entries read
Slots(blocks) ==
    UNION {{<<b, k>> : k \in 1..Len(blocks[b].file_entries)} : b \in 1..Len(blocks)}

SlotId(blocks, s) == GapId(blocks[s[1]].file_id_delta_table, s[2])
SlotIndex(blocks, s) == EntriesBefore(blocks, s[1]) + s[2] - 1

\* C15: RootFile::parse gives the k-th entry of every block the id
\* delta_1 + .. + delta_k + (k - 1), counted from 0 in each block (u32
\* arithmetic); entries holds the entries in file order, and each id maps to
\* the entry recorded for it last.
C15_FileIds ==
    (call.fn = "RootFile::parse" /\ call.res.kind = "ok") =>
        LET blocks == WholeBlocks(call.arg.blocks)
            map == call.res.file_id_to_entry_index
        IN  /\ Len(call.res.entries) = Cardinality(Slots(blocks))
            /\ \A s \in Slots(blocks) :
                  call.res.entries[SlotIndex(blocks, s) + 1] =
                      blocks[s[1]].file_entries[s[2]]
            /\ DOMAIN map = {SlotId(blocks, s) : s \in Slots(blocks)}
            /\ \A s \in Slots(blocks) :
                  \/ map[SlotId(blocks, s)] = SlotIndex(blocks, s)
                  \/ \E t \in Slots(blocks) :
                        /\ SlotId(blocks, t) = SlotId(blocks, s)
                        /\ SlotIndex(blocks, t) > SlotIndex(blocks, s)
                        /\ map[SlotId(blocks, s)] = SlotIndex(blocks, t)

\* the block with deltas [0, 2, 0] parsed to the ids 0, 3, 4
C15_Witness ==
    /\ call.fn = "RootFile::parse" /\ call.res.kind = "ok"
    /\ Len(call.arg.blocks) = 1
    /\ call.arg.blocks[1].file_id_delta_table = <<U32Of(0), U32Of(2), U32Of(0)>>
    /\ call.res.file_id_to_entry_index = (U32Of(0) :> 0 @@ U32Of(3) :> 1 @@ U32Of(4) :> 2)

IsLowerHex(s) == \A i \in 1..Len(s) : \E d \in 1..16 : s[i] = LowerHexDigits[d]

IsHex(s) == \A i \in 1..Len(s) : IsHexDigit(s[i])

ToLower(s) == [i \in 1..Len(s) |-> IF IsHexDigit(s[i]) THEN LowerHexDigits[DigitValue(s[i]) + 1]
                                   ELSE s[i]]

\* C16: to_string of a 16-byte key is 32 lowercase hex characters and
\* from_str of it gives the key back; from_str of a string of 32 hex
\* characters gives a key whose to_string is that string in lowercase.
C16_HexRoundTrip ==
    /\ call.fn = "Key::to_string" =>
          /\ Len(call.res) = 2 * KEY_BYTES
          /\ IsLowerHex(call.res)
          /\ from_str(call.res) = KeyOk(call.arg)
    /\ (call.fn = "Key::from_str" /\ Len(call.arg) = 2 * KEY_BYTES /\ IsHex(call.arg)) =>
          /\ call.res.kind = "ok"
          /\ to_string(call.res.key) = ToLower(call.arg)

\* a path in capitals with backslashes only
UpperBackslash(name) ==
    [i \in 1..Len(name) |->
        CASE name[i] = "a" -> "A"
          [] name[i] = "b" -> "B"
          [] name[i] = "/" -> "\\"
          [] OTHER -> name[i]]

\* C17: two paths that are equal after ASCII upper-casing and after turning
\* every forward slash into a backslash get the same answer from
\* RootFile::get_ckey_for_file_path and from
\* SheepfileReader::get_entry_for_name, and normalizing twice gives what
\* normalizing once gives.
C17_PathInvariance ==
    /\ call.fn = "RootFile::get_ckey_for_file_path" =>
          /\ call.res = get_ckey_for_file_path(CdnNamed.root, UpperBackslash(call.arg))
          /\ \A other \in PathInputs :
                UpperBackslash(other) = UpperBackslash(call.arg) =>
                    get_ckey_for_file_path(CdnNamed.root, other) = call.res
    /\ call.fn = "SheepfileReader::get_entry_for_name" =>
          /\ call.res = get_entry_for_name(NamedReader, UpperBackslash(call.arg))
          /\ \A other \in PathInputs :
                UpperBackslash(other) = UpperBackslash(call.arg) =>
                    get_entry_for_name(NamedReader, other) = call.res
    /\ call.fn \in {"RootFile::get_ckey_for_file_path",
                    "SheepfileReader::get_entry_for_name"} =>
          normalized(normalized(call.arg)) = normalized(call.arg)

\* a lower-case path with a forward slash found the entry of A\B
C17_Witness ==
    /\ call.fn = "SheepfileReader::get_entry_for_name"
    /\ call.arg = <<"a", "/", "b">>
    /\ call.res # NoneFound
    /\ call.res[1].file_id = 40

\* the bytes vlq_read took from its input
Consumed(bytes, rest) == SubSeq(bytes, 1, Len(bytes) - Len(rest))

\* C18: vlq_read of the bytes vlq_write emits for a value gives the value
\* and leaves nothing over, and vlq_write of a value that vlq_read parsed
\* gives the bytes that were read.
C18_VlqInverse ==
    /\ call.fn = "vlq_write" => vlq_read(call.res) = VlqOk(<<>>, call.arg)
    /\ (call.fn = "vlq_read" /\ call.res.kind = "ok") =>
          vlq_write(call.res.value, <<>>) = Consumed(call.arg, call.res.rest)

\* the file ends with a footer that passes the assert_eq attributes
GoodFooter(data) ==
    /\ data # <<>>
    /\ FooterOf(data).kind = "footer"
    /\ FooterOf(data).version = 1 /\ FooterOf(data).block_size_kb = 4

\* the entries stored in the file's blocks
RECURSIVE StoredEntries(_)
StoredEntries(data) ==
    IF data = <<>> THEN 0
    ELSE (IF Head(data).kind = "entries" THEN Head(data).len \div ARCHIVE_ENTRY_BYTES ELSE 0)
         + StoredEntries(Tail(data))

\* C27: ArchiveIndex::parse never panics; it returns an error when the
\* footer fails an assertion and when the blocks before the footer hold
\* fewer entries than footer.num_files, and a successful parse holds stored
\* entries only, none made of the bytes of the table of contents or footer.
C27_ParseErrors ==
    call.fn = "ArchiveIndex::parse" =>
        /\ call.res.kind \in {"ok", "err"}
        /\ ~GoodFooter(call.arg) => call.res.kind = "err"
        /\ (GoodFooter(call.arg) /\ StoredEntries(call.arg) < FooterOf(call.arg).num_files)
              => call.res.kind = "err"
        /\ call.res.kind = "ok" =>
              \A e \in call.res.entries : e.ekey <= StoredEntries(call.arg)

\* the id under which the entry with that index went into the map, if the
\* map still holds it
HasId(map, index) == \E id \in DOMAIN map : map[id] = index
IdOf(map, index) == CHOOSE id \in DOMAIN map : map[id] = index

\* C28: the ids RootFile::parse gives to the entries of one block are
\* strictly increasing in the order of the block, for every sequence of u32
\* deltas, also when their running sum reaches 2^32.
C28_IdsIncrease ==
    (call.fn = "RootFile::parse" /\ call.res.kind = "ok") =>
        LET blocks == WholeBlocks(call.arg.blocks)
            map == call.res.file_id_to_entry_index
        IN  \A s, t \in Slots(blocks) :
               (/\ s[1] = t[1] /\ s[2] < t[2]
                /\ HasId(map, SlotIndex(blocks, s)) /\ HasId(map, SlotIndex(blocks, t)))
                  => U32Less(IdOf(map, SlotIndex(blocks, s)), IdOf(map, SlotIndex(blocks, t)))

====
